---- MODULE Spec2Model ----
(***************************************************************************)
(* team-voices: the playback queue of createTeamVoicesServer (lib.mjs),    *)
(* run by several server processes that share one state directory.         *)
(*                                                                         *)
(* Every process owns the closure state of createTeamVoicesServer (muted,  *)
(* queue, isPlaying) and the position of its one drain() invocation.  The  *)
(* state directory holds the rendezvous descriptor playback.sock and the   *)
(* config record.  The collaborators generateTTS, execAsync and fs.unlink  *)
(* are asynchronous calls that return or throw at any later step.          *)
(***************************************************************************)
EXTENDS Integers, Sequences, FiniteSets, TLC

VARIABLES
    started,     \* per process: position in main()/startInboxWatcher
    muted,       \* per process: let muted            (lib.mjs:143)
    queue,       \* per process: const queue = []     (lib.mjs:144)
    isPlaying,   \* per process: let isPlaying        (lib.mjs:145)
    pc,          \* per process: the await drain() is suspended at
    cur,         \* per process: const item of the running drain()
    ttsCalls,    \* per process: the generateTTS calls made, in order
    nEnded,      \* per process: number of playback attempts that have ended
    caught,      \* per process: the attempt that ended last ended in catch
                 \* and no synthesis call has returned since
    enqLog,      \* per process: the enqueue calls made, in order, each with
                 \* the mute flag and the processes running when it was made
    trimmed,     \* per process: ids removed from the queue by splice
    nextId,      \* number of enqueue calls made so far, system-wide
    sockFile,    \* state directory: playback.sock exists
    listener,    \* process listening on playback.sock, 0 for nobody
    cfgMuted,    \* state directory: config.json's muted field, "none" if absent
    cfgVoices,   \* state directory: config.json's voiceAssignments
    cfgNext,     \* state directory: config.json's nextVoiceIndex
    saves,       \* the saveConfig calls that have not settled, in call
                 \* order, each with what it is waiting for and what it
                 \* stringified
    voiceAssignments,  \* per process: agent name -> voice
    nextVoiceIndex,    \* per process: the round-robin cursor
    lastOp,      \* per process: the last voice-table call and what it returned
    firstGet,    \* per process: what getVoiceForAgent returned first for a
                 \* tracked agent since the agent's last manual assignment
    manualArg,   \* per process: the argument of the agent's last manual
                 \* assignment
    autoLog,     \* per process: the automatic assignments made, in order
    files,       \* teams directory: the parsed content of each inbox file
    messageIndices,  \* watching process: inbox file -> messages processed
    watchers,    \* watching process: the inbox files with a watcher
    debounceTimers,  \* watching process: the inbox files with a timer entry
    timeouts,    \* watching process: the inbox files with a timeout running
    calls,       \* watching process: the processInboxFile calls under way
    batch,       \* watching process: what is left of newMessages in the loop
    batchCall,   \* watching process: the call whose loop is running
    seenHashes,  \* watching process: the fingerprints kept, oldest first
    inboxLog,    \* the messages the loop has taken and their fate
    again,       \* the file positions the loop has taken more than once
    failLog,     \* the inbox files a "Failed to process inbox" line names
    teamDirs,    \* teams directory: the team directories, in readdir order,
                 \* each with the state of its config.json
    scanned,     \* watching process: team directories startInboxWatcher has
                 \* scanned
    insertLog,   \* every fingerprint isDuplicate has added, in order
    dupResult,   \* the last isDuplicate call: fingerprint and return value
    speakOn,     \* claude-speech: ~/.claude-speak exists
    transcripts, \* claude-speech: the lines of each transcript file
    lastLine,    \* claude-speech: state/<key>.lastline of each transcript
    hookLocks,   \* claude-speech: the transcripts whose state/<key>.lock
                 \* directory exists
    hooks,       \* claude-speech: per hook process, where it is in
                 \* speak_response.sh and its shell variables
    queueDir,    \* claude-speech: the files of ~/.claude-speech/queue
    pidFile,     \* claude-speech: the pid in consumer.pid, 0 if no file
    lockHolder,  \* claude-speech: the lockf process that holds
                 \* consumer.lock, 0 for nobody
    consumers,   \* claude-speech: per spawned lockf, where it and its
                 \* speech_consumer.sh are and the script's variables
    spoken,      \* claude-speech: the messages say has finished, in order
    lifeLog      \* startup / cleanup calls, in the order they happened, each
                 \* with whether playback.sock was stale when it was made

vars == <<started, muted, queue, isPlaying, pc, cur, ttsCalls, nEnded, caught,
          enqLog, trimmed, nextId, sockFile, listener, cfgMuted, lifeLog,
          saves,
          cfgVoices, cfgNext, voiceAssignments, nextVoiceIndex, lastOp,
          firstGet, manualArg, autoLog, files, messageIndices, watchers,
          debounceTimers, timeouts, calls, batch, batchCall, seenHashes, inboxLog, again,
          failLog, teamDirs, scanned,
          insertLog, dupResult, speakOn, transcripts, lastLine, hookLocks,
          hooks, queueDir, pidFile, lockHolder, consumers, spoken>>

\* the state of the claude-speech plugin
Speech == <<speakOn, transcripts, lastLine, hookLocks, hooks, queueDir,
            pidFile, lockHolder, consumers, spoken>>

\* the voice table of every process and what is recorded about its calls
Voices == <<voiceAssignments, nextVoiceIndex, lastOp, firstGet, manualArg,
            autoLog>>

\* config.json
Config == <<cfgMuted, cfgVoices, cfgNext, saves>>

\* the fingerprint set and what is recorded about isDuplicate
Hashes == <<seenHashes, insertLog, dupResult>>

\* the inbox files, the watcher state of the watching process and what is
\* recorded about it
Inbox == <<files, messageIndices, watchers, debounceTimers, timeouts, calls,
           batch, batchCall, inboxLog, again,
                   failLog, teamDirs, scanned>>

--------------------------------------------------------------------------
(* Bounds of the model *)

MaxItems == 3       \* enqueue calls explored outside a burst
MaxBurst == 13      \* enqueue calls explored in a burst on one process
MaxPrefix == 2      \* calls by any producer before the burst
MaxFresh == 9       \* new agents when the cursor wraps around the pool
MaxAgents == 2      \* new agents in the other voice-table runs
MaxDistinct == 102  \* distinct messages given to isDuplicate
MaxFileLen == 2     \* messages in one inbox file
MaxCalls == 2       \* processInboxFile calls under way at once
MaxBroadcast == 1   \* messages in each inbox file of the short runs
MaxLines == 2         \* lines a transcript grows to
MaxConsumers == 2     \* consumers spawned in a run
MaxSaves == 2         \* saveConfig calls under way at once
MaxOver == 8        \* characters a rendered text is short of or over the limit

(* Program constants *)

TrimThreshold == 10   \* queue.length >= 10
TrimKeep == 5         \* queue.length - 5
MaxHashes == 100      \* seenHashes.size > 100
Retries == 3          \* processInboxFile(filePath, retries = 3)
SpokenLimit == 500    \* if (text.length > 500)
SpokenCut == 497      \* text.substring(0, 497) + '...'
IdleTimeout == 30     \* IDLE_TIMEOUT=30
PollInterval == 1     \* POLL_INTERVAL=1

Procs == {1, 2}
NoProc == 0

\* the inbox files of a team of two members
Files == {"inboxes/researcher.json", "inboxes/tester.json"}

\* one processInboxFile call: what it has read, "unread" before the read
Call(file, retries, at, snap) ==
    [file |-> file, retries |-> retries, at |-> at, snap |-> snap]

NoCall == Call("", 0, "none", <<>>)

NoItem == [id |-> -1, from |-> "none", bypassMute |-> FALSE, origin |-> NoProc]

--------------------------------------------------------------------------
(* Sequence helpers *)

\* playback.sock exists and nobody listens on it
Stale == sockFile /\ listener = NoProc

LifeEvent(p, ev) == [proc |-> p, ev |-> ev, stale |-> Stale]

Ids(s) == [i \in 1..Len(s) |-> s[i].id]

Last(s) == s[Len(s)]

--------------------------------------------------------------------------
(* enqueue, lib.mjs:154-159 *)

\* Variant: the mute check forgets bypassMute.
RejectedIgnoresBypass(m, item) == m

\* if (muted && !item.bypassMute) return;
Rejected(m, item) == m /\ ~item.bypassMute

\* Variant: the backlog is never trimmed.
TrimNeededNever(q) == FALSE

\* Variant: the trim waits for more than 10 waiting items.
TrimNeededAboveThreshold(q) == Len(q) > TrimThreshold

\* if (queue.length >= 10) queue.splice(0, queue.length - 5);
TrimNeeded(q) == Len(q) >= TrimThreshold

\* Variant: the splice keeps the oldest items instead of the newest.
SpliceKeepsOldest(q) == SubSeq(q, 1, TrimKeep)

SpliceKeep(q) == SubSeq(q, Len(q) - TrimKeep + 1, Len(q))

SpliceRemoved(q) == SubSeq(q, 1, Len(q) - TrimKeep)

Trim(q) == IF TrimNeeded(q) THEN SpliceKeep(q) ELSE q

\* Variant: the item is put at the head (unshift) instead of the tail.
EnqueueQAtHead(q, m, item) ==
    IF Rejected(m, item) THEN q ELSE <<item>> \o Trim(q)

\* queue.push(item) after the mute check and the trim
EnqueueQ(q, m, item) ==
    IF Rejected(m, item) THEN q ELSE Append(Trim(q), item)

EnqueueTrimmed(q, m, item) ==
    IF ~Rejected(m, item) /\ TrimNeeded(q)
    THEN {SpliceRemoved(q)[i].id : i \in 1..Len(SpliceRemoved(q))}
    ELSE {}

--------------------------------------------------------------------------
(* drain, lib.mjs:161-177 *)

\* Variant: drain does not look at isPlaying.
DrainReturnsIgnoresPlaying(playing, q) == Len(q) = 0

\* if (isPlaying || queue.length === 0) return;
DrainReturns(playing, q) == playing \/ Len(q) = 0

\* Variant: drain returns whatever the queue holds.
DrainFromReturnsAtOnce(p, q, playing) ==
    /\ queue' = [queue EXCEPT ![p] = q]
    /\ isPlaying' = [isPlaying EXCEPT ![p] = playing]
    /\ pc' = [pc EXCEPT ![p] = IF playing THEN pc[p] ELSE "idle"]
    /\ cur' = [cur EXCEPT ![p] = IF playing THEN cur[p] ELSE NoItem]
    /\ UNCHANGED ttsCalls

\* Variant: drain reads queue[0] and leaves it in the queue.
DrainFromWithoutShift(p, q, playing) ==
    IF DrainReturns(playing, q)
    THEN /\ queue' = [queue EXCEPT ![p] = q]
         /\ isPlaying' = [isPlaying EXCEPT ![p] = playing]
         /\ pc' = [pc EXCEPT ![p] = IF playing THEN pc[p] ELSE "idle"]
         /\ cur' = [cur EXCEPT ![p] = IF playing THEN cur[p] ELSE NoItem]
         /\ UNCHANGED ttsCalls
    ELSE /\ isPlaying' = [isPlaying EXCEPT ![p] = TRUE]
         /\ queue' = [queue EXCEPT ![p] = q]
         /\ cur' = [cur EXCEPT ![p] = Head(q)]
         /\ pc' = [pc EXCEPT ![p] = "tts"]
         /\ ttsCalls' = [ttsCalls EXCEPT ![p] =
                Append(@, [item |-> Head(q), muted |-> muted[p]])]

\* The synchronous part of drain() on process p, entered with queue q and
\* isPlaying = playing: up to the call of generateTTS, where it suspends.
DrainFrom(p, q, playing) ==
    IF DrainReturns(playing, q)
    THEN /\ queue' = [queue EXCEPT ![p] = q]
         /\ isPlaying' = [isPlaying EXCEPT ![p] = playing]
         /\ pc' = [pc EXCEPT ![p] = IF playing THEN pc[p] ELSE "idle"]
         /\ cur' = [cur EXCEPT ![p] = IF playing THEN cur[p] ELSE NoItem]
         /\ UNCHANGED ttsCalls
    ELSE /\ isPlaying' = [isPlaying EXCEPT ![p] = TRUE]
         /\ queue' = [queue EXCEPT ![p] = Tail(q)]
         /\ cur' = [cur EXCEPT ![p] = Head(q)]
         /\ pc' = [pc EXCEPT ![p] = "tts"]
         /\ ttsCalls' = [ttsCalls EXCEPT ![p] =
                Append(@, [item |-> Head(q), muted |-> muted[p]])]

\* Variant: the attempt ends without the trailing drain().
EndAttemptWithoutDrain(p) ==
    /\ nEnded' = [nEnded EXCEPT ![p] = @ + 1]
    /\ isPlaying' = [isPlaying EXCEPT ![p] = FALSE]
    /\ pc' = [pc EXCEPT ![p] = "idle"]
    /\ cur' = [cur EXCEPT ![p] = NoItem]
    /\ UNCHANGED <<queue, ttsCalls>>

\* isPlaying = false; drain();   (the end of one playback attempt)
EndAttempt(p) ==
    /\ nEnded' = [nEnded EXCEPT ![p] = @ + 1]
    /\ DrainFrom(p, queue[p], FALSE)

\* Variant: the catch block leaves isPlaying set and does not drain again.
CaughtWithoutReset(p) ==
    /\ caught' = [caught EXCEPT ![p] = TRUE]
    /\ nEnded' = [nEnded EXCEPT ![p] = @ + 1]
    /\ pc' = [pc EXCEPT ![p] = "idle"]
    /\ UNCHANGED <<queue, isPlaying, cur, ttsCalls>>

\* catch (err) { log(`TTS error: ${err.message}`) } isPlaying = false; drain();
\* generateTTS and execAsync reject with Error objects, so the log line
\* itself does not throw.
Caught(p) ==
    /\ caught' = [caught EXCEPT ![p] = TRUE]
    /\ EndAttempt(p)

--------------------------------------------------------------------------
(* The enqueue call and its producers *)

\* enqueue(item) on process p: the mute check, the trim, the push and the
\* synchronous part of the drain() it ends with.
Enqueue(p, item) ==
    /\ enqLog' = [enqLog EXCEPT ![p] = Append(@,
            [id |-> item.id, bypassMute |-> item.bypassMute,
             muted |-> muted[p], accepted |-> ~Rejected(muted[p], item),
             up |-> {r \in Procs : started[r] = "running"}])]
    /\ trimmed' = [trimmed EXCEPT ![p] =
            @ \cup EnqueueTrimmed(queue[p], muted[p], item)]
    /\ nextId' = nextId + 1
    /\ DrainFrom(p, EnqueueQ(queue[p], muted[p], item), isPlaying[p])
    /\ UNCHANGED <<started, muted, nEnded, caught, sockFile, listener, lifeLog>>

NewItem(p, from, bypass) ==
    [id |-> nextId, from |-> from, bypassMute |-> bypass, origin |-> p]

\* processInboxFile: enqueue({ text, voiceId: voice.id, from: msg.from })
InboxEnqueue(p, limit) ==
    /\ nextId < limit
    /\ Enqueue(p, NewItem(p, "agent", FALSE))
    /\ UNCHANGED <<Config, Voices, Hashes, Inbox, Speech>>

\* case 'speak': if (muted) return queued:false; enqueue({..., from: 'direct'})
SpeakEnqueues(m) == ~m

Speak(p, limit) ==
    /\ nextId < limit
    /\ SpeakEnqueues(muted[p])
    /\ Enqueue(p, NewItem(p, "direct", FALSE))
    /\ UNCHANGED <<Config, Voices, Hashes, Inbox, Speech>>

\* case 'team_voices_test': enqueue({..., from: 'test', bypassMute: true})
TestVoice(p, limit) ==
    /\ nextId < limit
    /\ Enqueue(p, NewItem(p, "test", TRUE))
    /\ UNCHANGED <<Config, Voices, Hashes, Inbox, Speech>>

\* instance.enqueue(item), the exported function called with any item
ApiEnqueue(p, bypass, limit) ==
    /\ nextId < limit
    /\ Enqueue(p, NewItem(p, "api", bypass))
    /\ UNCHANGED <<Config, Voices, Hashes, Inbox, Speech>>

--------------------------------------------------------------------------
(* The asynchronous steps of drain *)

Drained == <<started, muted, enqLog, trimmed, nextId, sockFile, listener,
             lifeLog, Config, Voices, Hashes, Inbox, Speech>>

\* await generateTTS(...) returns (ok) or throws
TTSDone(p, ok) ==
    /\ pc[p] = "tts"
    /\ IF ok
       THEN /\ pc' = [pc EXCEPT ![p] = "exec"]
            /\ caught' = [caught EXCEPT ![p] = FALSE]
            /\ UNCHANGED <<queue, isPlaying, cur, ttsCalls, nEnded>>
       ELSE Caught(p)
    /\ UNCHANGED Drained

\* await execAsync(afplay | mpv) returns (ok) or throws
ExecDone(p, ok) ==
    /\ pc[p] = "exec"
    /\ IF ok
       THEN /\ pc' = [pc EXCEPT ![p] = "unlink"]
            /\ UNCHANGED <<queue, isPlaying, cur, ttsCalls, nEnded, caught>>
       ELSE Caught(p)
    /\ UNCHANGED Drained

\* await fs.unlink(tmpFile).catch(() => {}) settles either way
UnlinkDone(p) ==
    /\ pc[p] = "unlink"
    /\ caught' = [caught EXCEPT ![p] = FALSE]
    /\ EndAttempt(p)
    /\ UNCHANGED Drained

\* instance.drain(), the exported function called directly
DrainCall(p) ==
    /\ DrainFrom(p, queue[p], isPlaying[p])
    /\ UNCHANGED <<nEnded, caught>>
    /\ UNCHANGED Drained

--------------------------------------------------------------------------
(* Messages and isDuplicate, lib.mjs:97-108 *)

\* the value of a field the message does not have
Undefined == "<undefined>"

Message(from, text, timestamp) ==
    [kind |-> "object", from |-> from, text |-> text, timestamp |-> timestamp]

\* a null element of the inbox array
NullMessage ==
    [kind |-> "null", from |-> Undefined, text |-> Undefined,
     timestamp |-> Undefined]

\* msg.from || '', msg.text || '', msg.timestamp || ''
OrEmpty(field) == IF field = Undefined THEN "" ELSE field

\* the hex digest of `${from}${text}${timestamp}`: SHA-256 is taken to give
\* different digests to different strings, so the digest is named by the
\* string it was computed from
Fingerprint(msg) ==
    <<"sha256",
      OrEmpty(msg.from) \o OrEmpty(msg.text) \o OrEmpty(msg.timestamp)>>

Range(seq) == {seq[i] : i \in 1..Len(seq)}

\* seenHashes.has(hash)
IsDuplicate(msg, seen) == Fingerprint(msg) \in Range(seen)

\* Variant: nothing is ever evicted.
SeenAfterKeepsAll(msg, seen) ==
    IF IsDuplicate(msg, seen) THEN seen ELSE Append(seen, Fingerprint(msg))

\* seenHashes.add(hash); if (seenHashes.size > 100) delete the first value
SeenAfter(msg, seen) ==
    IF IsDuplicate(msg, seen)
    THEN seen
    ELSE LET added == Append(seen, Fingerprint(msg))
         IN  IF Len(added) > MaxHashes THEN Tail(added) ELSE added

NoResult == [fp |-> <<"none", "">>, dup |-> FALSE]

\* isDuplicate(msg, seenHashes) on the fingerprint set of the process
DedupIn(msg) ==
    /\ seenHashes' = SeenAfter(msg, seenHashes)
    /\ dupResult' = [fp |-> Fingerprint(msg), dup |-> IsDuplicate(msg, seenHashes)]
    /\ insertLog' = IF IsDuplicate(msg, seenHashes)
                    THEN insertLog
                    ELSE Append(insertLog, Fingerprint(msg))

\* the i-th message of a run of distinct messages
DistinctMessage(i) == Message("a", "msg-" \o ToString(i), "1")

\* the number of distinct messages given so far
NumGiven == Cardinality(Range(insertLog))

\* isDuplicate called with the first message, the latest one, or a new one
IsDuplicateCall(limit) ==
    /\ \E i \in {0, NumGiven - 1, NumGiven} :
            /\ i >= 0
            /\ i < limit
            /\ DedupIn(DistinctMessage(i))
    /\ UNCHANGED <<started, muted, queue, isPlaying, pc, cur, ttsCalls, nEnded,
                   caught, enqLog, trimmed, nextId, sockFile, listener, lifeLog>>
    /\ UNCHANGED <<Config, Voices, Inbox, Speech>>

--------------------------------------------------------------------------
(* Voice assignment, lib.mjs:181-205, and saveConfig, lib.mjs:222-229 *)

VOICE_POOL == <<
    [name |-> "Rachel", id |-> "21m00Tcm4TlvDq8ikWAM"],
    [name |-> "Josh",   id |-> "TxGEqnHWrfWFTfGW9XjX"],
    [name |-> "Antoni", id |-> "ErXwobaYiN019PkySvjV"],
    [name |-> "Domi",   id |-> "AZnzlk1XvdvUeBnXmlld"],
    [name |-> "Arnold", id |-> "VR6AewLTigWG4xSOukaG"],
    [name |-> "Adam",   id |-> "pNInz6obpgDQGcFmaJgB"],
    [name |-> "Elli",   id |-> "MF3mGyEYCl7XYWbV9V6O"],
    [name |-> "Sam",    id |-> "yoZ06aMxZJJ28mfd3POQ"],
    [name |-> "Bella",  id |-> "EXAVITQu4vr4xnSDxMaL"] >>

NoVoice == [name |-> "", id |-> ""]

EmptyTable == [a \in {} |-> NoVoice]

\* String.prototype.toLowerCase on the strings that occur: a string that is
\* not listed has no upper-case letter.
LowerCase ==
    ("Rachel" :> "rachel") @@ ("Josh" :> "josh") @@ ("Antoni" :> "antoni") @@
    ("Domi" :> "domi") @@ ("Arnold" :> "arnold") @@ ("Adam" :> "adam") @@
    ("Elli" :> "elli") @@ ("Sam" :> "sam") @@ ("Bella" :> "bella") @@
    ("BELLA" :> "bella") @@
    ("VR6AewLTigWG4xSOukaG" :> "vr6aewltigwg4xsoukag")

toLowerCase(str) == IF str \in DOMAIN LowerCase THEN LowerCase[str] ELSE str

\* the arguments given to a manual assignment: a pool name in lower and in
\* upper case, a pool id, that id in lower case, and a string that is neither
VoiceInputs ==
    {"rachel", "BELLA", "VR6AewLTigWG4xSOukaG", "vr6aewltigwg4xsoukag",
     "custom-voice-abc123"}

AgentNames ==
    <<"agent-1", "agent-2", "agent-3", "agent-4", "agent-5", "agent-6",
      "agent-7", "agent-8", "agent-9", "agent-10", "agent-11", "agent-12",
      "agent-13", "agent-14">>

\* the agents that manual assignments and the first-lookup record follow
Tracked == {AgentNames[1], AgentNames[2]}

\* the name of the next agent never seen before
Unseen(va) == {i \in 3..Len(AgentNames) : AgentNames[i] \notin DOMAIN va}

NextFresh(va) == AgentNames[CHOOSE i \in Unseen(va) : \A j \in Unseen(va) : i <= j]

\* the agents a call may name: one of the given ones, or the next new one
\* while fewer than limit new ones are in the table
Targets(p, given, limit) ==
    given \cup
    IF Cardinality(DOMAIN voiceAssignments[p] \ Tracked) < limit
    THEN {NextFresh(voiceAssignments[p])} ELSE {}

\* Variant: the cursor is not reduced modulo the pool size.
AutoVoiceNoWrap(nvi) ==
    VOICE_POOL[IF nvi + 1 > Len(VOICE_POOL) THEN Len(VOICE_POOL) ELSE nvi + 1]

\* VOICE_POOL[nextVoiceIndex % VOICE_POOL.length]
AutoVoice(nvi) == VOICE_POOL[(nvi % Len(VOICE_POOL)) + 1]

\* v.name.toLowerCase() === voiceNameOrId.toLowerCase() || v.id === voiceNameOrId
PoolMatches(voiceNameOrId) ==
    {i \in 1..Len(VOICE_POOL) :
        \/ toLowerCase(VOICE_POOL[i].name) = toLowerCase(voiceNameOrId)
        \/ VOICE_POOL[i].id = voiceNameOrId}

\* Variant: the name is compared without lower-casing.
ManualVoiceCaseSensitive(voiceNameOrId) ==
    LET m == {i \in 1..Len(VOICE_POOL) :
                \/ VOICE_POOL[i].name = voiceNameOrId
                \/ VOICE_POOL[i].id = voiceNameOrId}
    IN  IF m # {}
        THEN VOICE_POOL[CHOOSE i \in m : \A j \in m : i <= j]
        ELSE [name |-> voiceNameOrId, id |-> voiceNameOrId]

\* const voice = VOICE_POOL.find(...);  voice, or else
\* { name: voiceNameOrId, id: voiceNameOrId }
ManualVoice(voiceNameOrId) ==
    LET m == PoolMatches(voiceNameOrId)
    IN  IF m # {}
        THEN VOICE_POOL[CHOOSE i \in m : \A j \in m : i <= j]
        ELSE [name |-> voiceNameOrId, id |-> voiceNameOrId]

\* Variant: the assignment is not stored.
SetVoiceDropped(va, agentName, voice) == va

\* voiceAssignments.set(agentName, voice)
SetVoice(va, agentName, voice) ==
    [a \in DOMAIN va \cup {agentName} |-> IF a = agentName THEN voice ELSE va[a]]

\* saveConfig: JSON.stringify({ voiceAssignments, nextVoiceIndex, muted })
\* written to config.json, for a call whose mkdir and writeFile settle
\* before the process does anything else
SaveConfig(va, nvi, m) ==
    /\ cfgVoices' = va
    /\ cfgNext' = nvi
    /\ cfgMuted' = IF m THEN "true" ELSE "false"
    /\ UNCHANGED saves

NoOp == [op |-> "none", agent |-> "", result |-> NoVoice,
         advanced |-> FALSE, repeat |-> FALSE]

\* what assignVoice(agentName) returns
AssignResult(p, agentName) ==
    IF agentName \in DOMAIN voiceAssignments[p]
    THEN voiceAssignments[p][agentName]
    ELSE AutoVoice(nextVoiceIndex[p])

\* assignVoice(agentName): the table, the cursor and the config record
AssignVoiceIn(p, agentName) ==
    IF agentName \in DOMAIN voiceAssignments[p]
    THEN UNCHANGED <<voiceAssignments, nextVoiceIndex, Config, autoLog>>
    ELSE LET voice == AutoVoice(nextVoiceIndex[p])
             va == SetVoice(voiceAssignments[p], agentName, voice)
         IN  /\ voiceAssignments' = [voiceAssignments EXCEPT ![p] = va]
             /\ nextVoiceIndex' = [nextVoiceIndex EXCEPT ![p] = @ + 1]
             /\ SaveConfig(va, nextVoiceIndex[p] + 1, muted[p])
             /\ autoLog' = [autoLog EXCEPT ![p] =
                    Append(@, [agent |-> agentName, voice |-> voice])]

\* what the voice-table calls leave alone
Played == <<started, muted, queue, isPlaying, pc, cur, ttsCalls, nEnded,
            caught, enqLog, trimmed, nextId, sockFile, listener, lifeLog,
            Hashes, Inbox, Speech>>

\* instance.assignVoice(agentName)
AssignVoice(p, agentName) ==
    /\ AssignVoiceIn(p, agentName)
    /\ lastOp' = [lastOp EXCEPT ![p] =
            [op |-> "assign", agent |-> agentName,
             result |-> AssignResult(p, agentName),
             advanced |-> nextVoiceIndex'[p] # nextVoiceIndex[p],
             repeat |-> FALSE]]
    /\ UNCHANGED <<firstGet, manualArg>>
    /\ UNCHANGED Played

\* getVoiceForAgent: voiceAssignments.get(agentName) || assignVoice(agentName)
GetVoiceForAgent(p, agentName) ==
    /\ AssignVoiceIn(p, agentName)
    /\ lastOp' = [lastOp EXCEPT ![p] =
            [op |-> "get", agent |-> agentName,
             result |-> AssignResult(p, agentName),
             advanced |-> nextVoiceIndex'[p] # nextVoiceIndex[p],
             repeat |-> agentName \in DOMAIN firstGet[p]]]
    /\ firstGet' = [firstGet EXCEPT ![p] =
            IF agentName \in Tracked /\ agentName \notin DOMAIN @
            THEN [a \in DOMAIN @ \cup {agentName} |->
                    IF a = agentName THEN AssignResult(p, agentName) ELSE @[a]]
            ELSE @]
    /\ UNCHANGED manualArg
    /\ UNCHANGED Played

\* manualAssignVoice(agentName, voiceNameOrId), also the handler of
\* team_voices_assign
ManualAssignVoice(p, agentName, voiceNameOrId) ==
    LET voice == ManualVoice(voiceNameOrId)
        va == SetVoice(voiceAssignments[p], agentName, voice)
    IN  /\ voiceAssignments' = [voiceAssignments EXCEPT ![p] = va]
        /\ SaveConfig(va, nextVoiceIndex[p], muted[p])
        /\ lastOp' = [lastOp EXCEPT ![p] =
                [op |-> "manual", agent |-> agentName, result |-> va[agentName],
                 advanced |-> FALSE, repeat |-> FALSE]]
        /\ manualArg' = [manualArg EXCEPT ![p] =
                [a \in DOMAIN @ \cup {agentName} |->
                    IF a = agentName THEN voiceNameOrId ELSE @[a]]]
        /\ firstGet' = [firstGet EXCEPT ![p] =
                [a \in DOMAIN @ \ {agentName} |-> @[a]]]
        /\ UNCHANGED <<nextVoiceIndex, autoLog>>
        /\ UNCHANGED Played

--------------------------------------------------------------------------
(* saveConfig as the mutating calls start it, without waiting for it,
   lib.mjs:186, 199 and 222-229 *)

\* a saveConfig call before its mkdir has settled
SaveAtMkdir == [at |-> "mkdir", voiceAssignments |-> EmptyTable,
                nextVoiceIndex |-> 0, muted |-> FALSE]

\* saveConfig() is called: it runs to await fs.mkdir and returns a promise
SaveConfigBegins ==
    /\ Len(saves) < MaxSaves
    /\ saves' = Append(saves, SaveAtMkdir)

\* the sequence without its i-th element
Without(seq, i) == SubSeq(seq, 1, i - 1) \o SubSeq(seq, i + 1, Len(seq))

\* what the voice-table and mute calls below leave alone
Unsaved == <<cfgMuted, cfgVoices, cfgNext, started, queue, isPlaying, pc, cur,
             ttsCalls, nEnded, caught, enqLog, trimmed, nextId, sockFile,
             listener, lifeLog, lastOp, firstGet, manualArg, Hashes, Inbox,
             Speech>>

\* assignVoice(agentName) of an agent without a voice, saveConfig() not
\* awaited
AssignVoiceBegins(p, agentName) ==
    /\ agentName \notin DOMAIN voiceAssignments[p]
    /\ LET voice == AutoVoice(nextVoiceIndex[p])
       IN  /\ voiceAssignments' = [voiceAssignments EXCEPT ![p] =
                    SetVoice(@, agentName, voice)]
           /\ autoLog' = [autoLog EXCEPT ![p] =
                    Append(@, [agent |-> agentName, voice |-> voice])]
    /\ nextVoiceIndex' = [nextVoiceIndex EXCEPT ![p] = @ + 1]
    /\ SaveConfigBegins
    /\ UNCHANGED <<muted, Unsaved>>

\* manualAssignVoice(agentName, voiceNameOrId), saveConfig() not awaited
ManualAssignBegins(p, agentName, voiceNameOrId) ==
    /\ voiceAssignments' = [voiceAssignments EXCEPT ![p] =
            SetVoice(@, agentName, ManualVoice(voiceNameOrId))]
    /\ SaveConfigBegins
    /\ UNCHANGED <<nextVoiceIndex, autoLog, muted, Unsaved>>

\* case 'team_voices_mute': muted = args.muted; then the handler waits in
\* await saveConfig() while other handlers run
MuteBegins(p, v) ==
    /\ muted' = [muted EXCEPT ![p] = v]
    /\ SaveConfigBegins
    /\ UNCHANGED <<voiceAssignments, nextVoiceIndex, autoLog, Unsaved>>

\* await fs.mkdir settles: JSON.stringify of the table, the cursor and the
\* mute flag as they are now, and fs.writeFile is called
SaveStringifies(p, i) ==
    /\ i \in 1..Len(saves)
    /\ saves[i].at = "mkdir"
    /\ saves' = [saves EXCEPT ![i] =
            [at |-> "write", voiceAssignments |-> voiceAssignments[p],
             nextVoiceIndex |-> nextVoiceIndex[p], muted |-> muted[p]]]
    /\ UNCHANGED <<voiceAssignments, nextVoiceIndex, autoLog, muted, Unsaved>>

\* await fs.writeFile settles, in any order among the calls on the one
\* path: config.json holds what this call stringified
SaveWritten(i) ==
    /\ i \in 1..Len(saves)
    /\ saves[i].at = "write"
    /\ cfgVoices' = saves[i].voiceAssignments
    /\ cfgNext' = saves[i].nextVoiceIndex
    /\ cfgMuted' = IF saves[i].muted THEN "true" ELSE "false"
    /\ saves' = Without(saves, i)
    /\ UNCHANGED <<Voices, Played>>

\* one of the pending calls moves on
SaveStringifiesAny(p) == \E i \in 1..MaxSaves : SaveStringifies(p, i)

SaveWrittenAny == \E i \in 1..MaxSaves : SaveWritten(i)

--------------------------------------------------------------------------
(* The message processor's text functions, lib.mjs:37-95 *)

\* a message with a summary
MessageWith(from, text, timestamp, summary) ==
    [kind |-> "object", from |-> from, text |-> text, timestamp |-> timestamp,
     summary |-> summary]

\* msg.summary
SummaryOf(msg) == IF "summary" \in DOMAIN msg THEN msg.summary ELSE Undefined

\* a || b on strings: b when a is undefined or empty
OrElse(a, b) == IF a \in {Undefined, ""} THEN b ELSE a

\* the white space that occurs in the texts
WhiteSpace == {" ", "\t", "\n"}

RECURSIVE trimStart(_)
trimStart(str) ==
    IF Len(str) > 0 /\ SubSeq(str, 1, 1) \in WhiteSpace
    THEN trimStart(SubSeq(str, 2, Len(str)))
    ELSE str

RECURSIVE trimEnd(_)
trimEnd(str) ==
    IF Len(str) > 0 /\ SubSeq(str, Len(str), Len(str)) \in WhiteSpace
    THEN trimEnd(SubSeq(str, 1, Len(str) - 1))
    ELSE str

\* str.trim()
trim(str) == trimEnd(trimStart(str))

\* str.startsWith(prefix)
startsWith(str, prefix) ==
    Len(str) >= Len(prefix) /\ SubSeq(str, 1, Len(prefix)) = prefix

\* str.replace(/_/g, ' ')
RECURSIVE replaceUnderscores(_)
replaceUnderscores(str) ==
    IF Len(str) = 0 THEN ""
    ELSE (IF SubSeq(str, 1, 1) = "_" THEN " " ELSE SubSeq(str, 1, 1))
            \o replaceUnderscores(SubSeq(str, 2, Len(str)))

\* the object a JSON document stands for: the fields the templates read
Parsed(type, subject, assignedBy, reason) ==
    [ok |-> TRUE, type |-> type, subject |-> subject,
     assignedBy |-> assignedBy, reason |-> reason]

\* JSON.parse throws a SyntaxError
NoJson == [ok |-> FALSE]

\* the idle notification as it stands in a message text
IdleText == "{\"type\":\"idle_notification\"}"

TaskText == "{\"type\":\"task_assignment\",\"subject\":\"Fix bug\"}"

\* the JSON documents that occur in the texts and what they parse to
JsonDocs ==
    (IdleText :> Parsed("idle_notification", Undefined, Undefined, Undefined))
    @@ (TaskText :> Parsed("task_assignment", "Fix bug", Undefined, Undefined))
    @@ ("{\"type\":\"task_assignment\",\"assignedBy\":\"lead\",\"subject\":\"Fix bug\"}"
            :> Parsed("task_assignment", "Fix bug", "lead", Undefined))
    @@ ("{\"type\":\"task_assignment\"}"
            :> Parsed("task_assignment", Undefined, Undefined, Undefined))
    @@ ("{\"type\":\"shutdown_request\",\"reason\":\"all done\"}"
            :> Parsed("shutdown_request", Undefined, Undefined, "all done"))
    @@ ("{\"type\":\"shutdown_request\"}"
            :> Parsed("shutdown_request", Undefined, Undefined, Undefined))
    @@ ("{\"type\":\"shutdown_approved\"}"
            :> Parsed("shutdown_approved", Undefined, Undefined, Undefined))
    @@ ("{\"type\":\"plan_approval_request\"}"
            :> Parsed("plan_approval_request", Undefined, Undefined, Undefined))
    @@ ("{\"type\":\"custom_event_type\"}"
            :> Parsed("custom_event_type", Undefined, Undefined, Undefined))
    @@ ("{\"foo\":1}" :> Parsed(Undefined, Undefined, Undefined, Undefined))

\* JSON.parse(text): white space around the document is skipped, and every
\* text that is not one of the documents is a syntax error
JsonParse(text) ==
    IF trim(text) \in DOMAIN JsonDocs THEN JsonDocs[trim(text)] ELSE NoJson

\* isIdleNotification(text)
IsIdleNotification(text) ==
    /\ startsWith(text, "{")
    /\ JsonParse(text).ok
    /\ JsonParse(text).type = "idle_notification"

\* shouldSpeak(msg)
ShouldSpeak(msg) ==
    /\ ~(msg.text \in {Undefined, ""} \/ Len(trim(msg.text)) = 0)
    /\ ~IsIdleNotification(msg.text)

\* what stripMarkdown makes of the texts with Markdown in them
Stripped ==
    ("use **bold** here" :> "use bold here")
    @@ ("## Heading Here" :> "Heading Here")
    @@ ("| col1 | col2 |" :> "")

\* stripMarkdown(text): the texts that occur have Markdown in them only if
\* they are listed above, and of the others only the ends are trimmed
StripMarkdown(text) ==
    IF text \in DOMAIN Stripped THEN Stripped[text] ELSE trim(text)

\* prepareProtocolText(parsed, from)
PrepareProtocolText(parsed, from) ==
    CASE parsed.type = "task_assignment" ->
            OrElse(parsed.assignedBy, from) \o " assigned task: "
                \o OrElse(parsed.subject, "unknown")
      [] parsed.type = "shutdown_request" ->
            from \o " requests shutdown: "
                \o OrElse(parsed.reason, "work complete")
      [] parsed.type = "shutdown_approved" -> from \o " has shut down"
      [] parsed.type = "plan_approval_request" ->
            from \o " submitted a plan for approval"
      [] OTHER -> from \o ": " \o replaceUnderscores(parsed.type)

\* Variant: the cut keeps 500 characters before the dots.
TruncatedLate(text) ==
    IF Len(text) > SpokenLimit
    THEN SubSeq(text, 1, SpokenLimit) \o "..."
    ELSE text

\* if (text.length > 500) text = text.substring(0, 497) + '...'
Truncated(text) ==
    IF Len(text) > SpokenLimit
    THEN SubSeq(text, 1, SpokenCut) \o "..."
    ELSE text

\* prepareText(msg)
PrepareText(msg) ==
    LET from == OrElse(msg.from, "unknown")
        text == OrElse(SummaryOf(msg), msg.text)
    IN  IF /\ startsWith(text, "{")
           /\ JsonParse(text).ok
           /\ JsonParse(text).type \notin {Undefined, ""}
        THEN PrepareProtocolText(JsonParse(text), from)
        ELSE Truncated(from \o " says: " \o StripMarkdown(text))

--------------------------------------------------------------------------
(* The inbox watcher, lib.mjs:233-288 and 317-350 *)

\* the process whose watcher state the inbox variables hold
Watcher == 1

\* what the inbox watcher leaves alone unless it enqueues
QueueSide == <<started, muted, queue, isPlaying, pc, cur, ttsCalls, nEnded,
               caught, enqLog, trimmed, nextId, sockFile, listener, lifeLog>>

\* messageIndices.get(filePath) || 0
Cursor(mi, f) == IF f \in DOMAIN mi THEN mi[f] ELSE 0

\* messageIndices.set(filePath, n)
SetIndex(mi, f, n) == [g \in DOMAIN mi \cup {f} |-> IF g = f THEN n ELSE mi[g]]

\* messageIndices.delete(filePath)
DeleteIndex(mi, f) == [g \in DOMAIN mi \ {f} |-> mi[g]]

\* shouldSpeak(null) reads .text of null and throws
Throws(msg) == msg.kind = "null"

\* msg.from || 'unknown'
AgentOf(msg) == IF msg.from \in {Undefined, ""} THEN "unknown" ELSE msg.from

\* Variant: the slice ignores the cursor.
NewPositionsFromStart(snap, lastIndex) ==
    IF Len(snap) <= lastIndex THEN {} ELSE 1..Len(snap)

\* if (messages.length <= lastIndex) return; messages.slice(lastIndex), as
\* the 1-based positions of the messages taken
NewPositions(snap, lastIndex) ==
    IF Len(snap) <= lastIndex THEN {} ELSE (lastIndex + 1)..Len(snap)

\* the messages at a set of positions, in the order of the file
Taken(snap, f, from, to, keep) ==
    LET RECURSIVE Go(_)
        Go(i) == IF i > to THEN <<>>
                 ELSE (IF i \in keep
                       THEN <<[file |-> f, pos |-> i, msg |-> snap[i]]>>
                       ELSE <<>>) \o Go(i + 1)
    IN  Go(from)

\* a processInboxFile call begins: nothing is read yet
CallBegins(f) ==
    /\ Cardinality(calls) < MaxCalls
    /\ calls' = calls \cup {Call(f, Retries, "unread", <<>>)}

\* Variant: one more retry than the parameter allows.
RetriedOnceMore(c) ==
    IF c.retries >= 0 THEN {Call(c.file, c.retries - 1, "unread", <<>>)} ELSE {}

\* catch (err): if (retries > 0) processInboxFile(filePath, retries - 1)
\* after the delay, else log
Retried(c) ==
    IF c.retries > 0 THEN {Call(c.file, c.retries - 1, "unread", <<>>)} ELSE {}

\* log(`Failed to process inbox ${filePath}: ...`) when no retry is left
GivenUp(c) == IF c.retries > 0 THEN {} ELSE {c.file}

\* another process appends a message to an inbox file
AppendMessage(f, msg, limit) ==
    /\ batch = <<>>
    /\ Len(files[f]) < limit
    /\ files' = [files EXCEPT ![f] = Append(@, msg)]
    /\ UNCHANGED <<messageIndices, watchers, debounceTimers, timeouts, calls,
                   batch, batchCall, inboxLog, again,
                   failLog, teamDirs, scanned, Speech>>
    /\ UNCHANGED <<QueueSide, Config, Voices, Hashes>>

\* another process rewrites an inbox file without its last message
DropLast(f) ==
    /\ batch = <<>>
    /\ files[f] # <<>>
    /\ files' = [files EXCEPT ![f] = SubSeq(@, 1, Len(@) - 1)]
    /\ UNCHANGED <<messageIndices, watchers, debounceTimers, timeouts, calls,
                   batch, batchCall, inboxLog, again,
                   failLog, teamDirs, scanned, Speech>>
    /\ UNCHANGED <<QueueSide, Config, Voices, Hashes>>

\* watchInboxFile(filePath), called by scanTeamDir for a member's inbox
WatchInboxFile(f) ==
    /\ batch = <<>>
    /\ f \notin watchers
    /\ watchers' = watchers \cup {f}
    /\ CallBegins(f)
    /\ UNCHANGED <<files, messageIndices, debounceTimers, timeouts, batch,
                   batchCall, inboxLog, again,
                   failLog, teamDirs, scanned, Speech>>
    /\ UNCHANGED <<QueueSide, Config, Voices, Hashes>>

\* the fs.watch callback: clearTimeout of the entry, if any, and a new
\* timeout of 100 ms
Notify(f) ==
    /\ batch = <<>>
    /\ f \in watchers
    /\ debounceTimers' = debounceTimers \cup {f}
    /\ timeouts' = timeouts \cup {f}
    /\ UNCHANGED <<files, messageIndices, watchers, calls, batch, batchCall,
                   inboxLog, again,
                   failLog, teamDirs, scanned, Speech>>
    /\ UNCHANGED <<QueueSide, Config, Voices, Hashes>>

\* the debounce timeout fires: processInboxFile(filePath)
TimerFires(f) ==
    /\ batch = <<>>
    /\ f \in timeouts
    /\ timeouts' = timeouts \ {f}
    /\ CallBegins(f)
    /\ UNCHANGED <<files, messageIndices, watchers, debounceTimers, batch,
                   batchCall, inboxLog, again,
                   failLog, teamDirs, scanned, Speech>>
    /\ UNCHANGED <<QueueSide, Config, Voices, Hashes>>

\* watcher.on('error'): unwatchInboxFile(filePath).  The timer entry is
\* deleted without clearTimeout, so a running timeout still fires.
WatcherError(f) ==
    /\ batch = <<>>
    /\ f \in watchers
    /\ watchers' = watchers \ {f}
    /\ debounceTimers' = debounceTimers \ {f}
    /\ messageIndices' = DeleteIndex(messageIndices, f)
    /\ UNCHANGED <<files, timeouts, calls, batch, batchCall, inboxLog, again,
                   failLog, teamDirs, scanned, Speech>>
    /\ UNCHANGED <<QueueSide, Config, Voices, Hashes>>

\* the team directories fs.readdir(teamsDir) lists
Teams == {"my-team", "other-team"}

\* path.join(teamDir, 'inboxes', `${member.name}.json`) for the one member
\* a team's config.json names
MemberInboxes(team) ==
    IF team = "my-team" THEN {"inboxes/researcher.json"}
    ELSE {"inboxes/tester.json"}

\* what a team's config.json is: a members array, no file, text that is
\* not JSON, or JSON without a members array
Descriptors == {"members", "missing", "invalid", "nomembers"}

\* `${teamConfigPath}__config`
ConfigWatchKey(team) == team \o "/config.json__config"

\* Variant: the members are taken whatever the descriptor is.
TeamMembersUnchecked(dir) == MemberInboxes(dir.team)

\* the inboxes scanTeamDir goes through: none when readFile or JSON.parse
\* throws or when config.members is not an array
TeamMembers(dir) ==
    IF dir.config = "members" THEN MemberInboxes(dir.team) ELSE {}

\* the watcher scanTeamDir sets on config.json, reached only after the
\* members loop
ConfigWatch(dir) ==
    IF dir.config = "members" THEN {ConfigWatchKey(dir.team)} ELSE {}

\* the for loop of startInboxWatcher: await scanTeamDir of the next entry,
\* which watches each member inbox not yet watched and begins its initial
\* read
ScanTeamDir ==
    /\ batch = <<>>
    /\ started[Watcher] = "starting"
    /\ scanned < Len(teamDirs)
    /\ LET dir == teamDirs[scanned + 1]
           new == TeamMembers(dir) \ watchers
       IN  /\ Cardinality(calls) + Cardinality(new) <= MaxCalls
           /\ watchers' = watchers \cup new \cup ConfigWatch(dir)
           /\ calls' = calls \cup {Call(f, Retries, "unread", <<>>) : f \in new}
    /\ scanned' = scanned + 1
    /\ UNCHANGED <<files, messageIndices, debounceTimers, timeouts, batch,
                   batchCall, inboxLog, again, failLog, teamDirs, Speech>>
    /\ UNCHANGED <<QueueSide, Config, Voices, Hashes>>

\* the files the safety poll goes through: the keys of messageIndices
PollTargets(mi) == DOMAIN mi

\* the 5 s interval: for (const [filePath] of messageIndices)
\*     await processInboxFile(filePath)
SafetyPoll(f) ==
    /\ batch = <<>>
    /\ f \in PollTargets(messageIndices)
    /\ CallBegins(f)
    /\ UNCHANGED <<files, messageIndices, watchers, debounceTimers, timeouts,
                   batch, batchCall, inboxLog, again,
                   failLog, teamDirs, scanned, Speech>>
    /\ UNCHANGED <<QueueSide, Config, Voices, Hashes>>

\* await fs.readFile and JSON.parse: the content as it is now, or a throw
\* when the file is in the middle of a write
ReadDone(c, ok) ==
    /\ batch = <<>>
    /\ c \in calls
    /\ c.at = "unread"
    /\ calls' = (calls \ {c}) \cup
            IF ok THEN {Call(c.file, c.retries, "read", files[c.file])}
            ELSE Retried(c)
    /\ failLog' = IF ok THEN failLog ELSE failLog \cup GivenUp(c)
    /\ UNCHANGED <<files, messageIndices, watchers, debounceTimers, timeouts,
                   batch, batchCall, inboxLog, again, teamDirs, scanned, Speech>>
    /\ UNCHANGED <<QueueSide, Config, Voices, Hashes>>

ReadAny(ok) == \E c \in calls : ReadDone(c, ok)

\* JSON.parse gives a value that is not an array, as the file holds one at
\* this moment: if (!Array.isArray(messages)) return;
ReadNotArray(c) ==
    /\ batch = <<>>
    /\ c \in calls
    /\ c.at = "unread"
    /\ calls' = calls \ {c}
    /\ UNCHANGED <<files, messageIndices, watchers, debounceTimers, timeouts,
                   batch, batchCall, inboxLog, again, failLog, teamDirs,
                   scanned, Speech>>
    /\ UNCHANGED <<QueueSide, Config, Voices, Hashes>>

ReadNotArrayAny == \E c \in calls : ReadNotArray(c)

\* processInboxFile after the read: lastIndex, the length test, the slice
\* and messageIndices.set(filePath, messages.length), before the loop
TakeNew(c) ==
    /\ batch = <<>>
    /\ c \in calls
    /\ c.at = "read"
    /\ calls' = calls \ {c}
    /\ LET lastIndex == Cursor(messageIndices, c.file)
           new == NewPositions(c.snap, lastIndex)
       IN  IF new = {}
           THEN UNCHANGED <<messageIndices, batch, batchCall>>
           ELSE /\ messageIndices' = SetIndex(messageIndices, c.file, Len(c.snap))
                /\ batch' = Taken(c.snap, c.file, 1, Len(c.snap), new)
                /\ batchCall' = c
    /\ UNCHANGED <<files, watchers, debounceTimers, timeouts, inboxLog, again,
                   failLog, teamDirs, scanned, Speech>>
    /\ UNCHANGED <<QueueSide, Config, Voices, Hashes>>

TakeAny == \E c \in calls : TakeNew(c)

\* what the loop records of the message it takes
Fate(e, fate) ==
    [file |-> e.file, pos |-> e.pos, msg |-> e.msg, fate |-> fate,
     advanced |-> Cursor(messageIndices, e.file) >= e.pos,
     text |-> IF fate = "enqueued" THEN PrepareText(e.msg) ELSE Undefined]

\* one turn of: for (const msg of newMessages) { shouldSpeak; isDuplicate;
\* prepareText; getVoiceForAgent; enqueue }.  Nothing else of the process
\* runs between two turns.
HandleNext ==
    /\ batch # <<>>
    /\ again' = again \cup
            {[file |-> r.file, pos |-> r.pos] :
                r \in {r \in inboxLog : r.file = Head(batch).file
                                         /\ r.pos = Head(batch).pos}}
    /\ LET e == Head(batch)
           more == Tail(batch)
       IN  IF Throws(e.msg)
           THEN /\ batch' = <<>>
                /\ batchCall' = NoCall
                /\ calls' = calls \cup Retried(batchCall)
                /\ failLog' = failLog \cup GivenUp(batchCall)
                /\ inboxLog' = inboxLog \cup {Fate(e, "threw")}
                /\ UNCHANGED <<QueueSide, Config, Voices, Hashes>>
           ELSE /\ batch' = more
                /\ batchCall' = IF more = <<>> THEN NoCall ELSE batchCall
                /\ calls' = calls
                /\ failLog' = failLog
                /\ IF ~ShouldSpeak(e.msg)
                   THEN /\ inboxLog' = inboxLog \cup {Fate(e, "skipped")}
                        /\ UNCHANGED <<QueueSide, Config, Voices, Hashes>>
                   ELSE /\ DedupIn(e.msg)
                        /\ IF IsDuplicate(e.msg, seenHashes)
                           THEN /\ inboxLog' = inboxLog \cup {Fate(e, "duplicate")}
                                /\ UNCHANGED <<QueueSide, Config, Voices>>
                           ELSE /\ inboxLog' = inboxLog \cup {Fate(e, "enqueued")}
                                /\ AssignVoiceIn(Watcher, AgentOf(e.msg))
                                /\ lastOp' = [lastOp EXCEPT ![Watcher] =
                                        [op |-> "get", agent |-> AgentOf(e.msg),
                                         result |-> AssignResult(Watcher, AgentOf(e.msg)),
                                         advanced |-> nextVoiceIndex'[Watcher]
                                                        # nextVoiceIndex[Watcher],
                                         repeat |-> FALSE]]
                                /\ UNCHANGED <<firstGet, manualArg>>
                                /\ Enqueue(Watcher, NewItem(Watcher, e.msg.from, FALSE))
    /\ UNCHANGED <<files, messageIndices, watchers, debounceTimers, timeouts,
                   teamDirs, scanned, Speech>>

--------------------------------------------------------------------------
(* Mute and the config record *)

\* case 'team_voices_mute': muted = args.muted; await saveConfig();
Mute(p, v) ==
    /\ muted' = [muted EXCEPT ![p] = v]
    /\ SaveConfig(voiceAssignments[p], nextVoiceIndex[p], v)
    /\ UNCHANGED <<started, queue, isPlaying, pc, cur, ttsCalls, nEnded, caught,
                   enqLog, trimmed, nextId, sockFile, listener, lifeLog>>
    /\ UNCHANGED <<Voices, Hashes, Inbox, Speech>>

\* team_voices_mute called before the burst
MuteEarly(p, v, limit) ==
    /\ nextId < limit
    /\ Mute(p, v)

\* config.nextVoiceIndex || voiceAssignments.size
LoadedIndex(saved, va) == IF saved # 0 THEN saved ELSE Cardinality(DOMAIN va)

\* loadConfig: without config.json the read throws and nothing changes;
\* otherwise voiceAssignments = new Map(Object.entries(...)), the cursor,
\* and if (typeof config.muted === 'boolean') muted = config.muted;
LoadConfig(p) ==
    /\ started[p] = "new"
    /\ started' = [started EXCEPT ![p] = "loaded"]
    /\ muted' = [muted EXCEPT ![p] =
            IF cfgMuted = "none" THEN @ ELSE cfgMuted = "true"]
    /\ voiceAssignments' = [voiceAssignments EXCEPT ![p] =
            IF cfgMuted = "none" THEN @ ELSE cfgVoices]
    /\ nextVoiceIndex' = [nextVoiceIndex EXCEPT ![p] =
            IF cfgMuted = "none" THEN @ ELSE LoadedIndex(cfgNext, cfgVoices)]
    /\ UNCHANGED <<queue, isPlaying, pc, cur, ttsCalls, nEnded, caught, enqLog,
                   trimmed, nextId, sockFile, listener, lifeLog>>
    /\ UNCHANGED <<Config, lastOp, firstGet, manualArg, autoLog, Hashes, Inbox, Speech>>

--------------------------------------------------------------------------
(* Startup and teardown *)

Queues == <<muted, queue, isPlaying, pc, cur, ttsCalls, nEnded, caught, enqLog,
            trimmed, nextId, Config, Voices, Hashes, Inbox, Speech>>

\* startInboxWatcher is called: runs to its first await (fs.mkdir)
StartBegin(p) ==
    /\ started[p] \in {"new", "loaded"}
    /\ started' = [started EXCEPT ![p] = "starting"]
    /\ lifeLog' = Append(lifeLog, LifeEvent(p, "begin"))
    /\ UNCHANGED <<sockFile, listener>>
    /\ UNCHANGED Queues

\* startInboxWatcher resolves: teams scanned, watchers and the safety poll
\* installed.  It neither binds, connects to nor removes playback.sock.
StartEnd(p) ==
    /\ started[p] = "starting"
    /\ p = Watcher => scanned = Len(teamDirs)
    /\ started' = [started EXCEPT ![p] = "running"]
    /\ lifeLog' = Append(lifeLog, LifeEvent(p, "end"))
    /\ UNCHANGED <<sockFile, listener>>
    /\ UNCHANGED Queues

\* instance.cleanup(): the object createTeamVoicesServer returns has no
\* cleanup member, so the call throws a TypeError and changes nothing.
Cleanup(p) ==
    /\ started[p] = "running"
    /\ \A i \in 1..Len(lifeLog) :
            ~(lifeLog[i].proc = p /\ lifeLog[i].ev = "cleanup")
    /\ lifeLog' = Append(lifeLog, LifeEvent(p, "cleanup"))
    /\ UNCHANGED <<started, sockFile, listener>>
    /\ UNCHANGED Queues

--------------------------------------------------------------------------
(* claude-speech: hooks/speak_response.sh:1-127, hooks/speech_consumer.sh *)

\* what the claude-speech scripts leave alone
TeamVoices == <<QueueSide, Config, Voices, Hashes, Inbox>>

\* the hook processes, the lockf processes they spawn, the transcripts
HookProcs == {1, 2}

Consumers == 1..MaxConsumers

Transcripts == {"t1"}

NoPid == 0

\* a hook process that is not running
HookIdle ==
    [at |-> "idle", transcript_path |-> "", current_lines |-> 0,
     last_message |-> 0, SEQ |-> 0, pid |-> NoPid]

\* no file name
NoFile == 0

\* a lockf that has not been spawned
ConsumerNone == [at |-> "none", msg_file |-> NoFile, idle_seconds |-> 0]

\* "$QUEUE_DIR/${SEQ}_${TIMESTAMP}.msg" or .processing and its content.
\* The timestamp is left out of the name: the hook lock of the one
\* transcript is held from before the ls to after the write, so no two
\* files in the directory have the same sequence number.
QueueFile(seq, ext, text) == [seq |-> seq, ext |-> ext, text |-> text]

\* the name of a file without its extension
Stem(f) == f.seq

InitSpeech ==
    /\ speakOn = TRUE
    /\ transcripts = [t \in Transcripts |-> <<>>]
    /\ lastLine = [t \in Transcripts |-> 0]
    /\ hookLocks = {}
    /\ hooks = [h \in HookProcs |-> HookIdle]
    /\ queueDir = {}
    /\ pidFile = NoPid
    /\ lockHolder = NoPid
    /\ consumers = [c \in Consumers |-> ConsumerNone]
    /\ spoken = <<>>

\* sort -rn | head -1, and ${highest:-0} when there is nothing
MaxOf(S) == IF S = {} THEN 0 ELSE CHOOSE x \in S : \A y \in S : y <= x

\* ls -1 "$QUEUE_DIR" | grep -E '^[0-9]{4}_' | cut -d_ -f1 | sort -rn | head -1
Highest(dir) == MaxOf({f.seq : f \in dir})

\* the order of sort on the names: by the four digits
SortsBefore(f, g) == f.seq <= g.seq

\* get_oldest_message: ls -1 "$QUEUE_DIR"/*.msg | sort | head -1
Oldest(dir) ==
    LET msgs == {f \in dir : f.ext = "msg"}
    IN  IF msgs = {} THEN NoFile
        ELSE Stem(CHOOSE f \in msgs : \A g \in msgs : SortsBefore(f, g))

\* tail -"$lines_to_check" | grep '"type":"assistant"' | tail -r | the
\* first line with text: its line number, 0 if there is none
LastMessage(lines, n) ==
    MaxOf({i \in 1..Len(lines) : i > Len(lines) - n /\ lines[i] = "text"})

\* kill -0 "$pid": the script of that lockf is running
Alive(c) ==
    /\ c \in Consumers
    /\ consumers[c].at \in {"start", "loop", "mv", "say", "speaking", "cleanup"}

\* the session appends a line to its transcript: an assistant message with
\* text, or one with tool_use blocks only
Respond(t, kind) ==
    /\ Len(transcripts[t]) < MaxLines
    /\ transcripts' = [transcripts EXCEPT ![t] = Append(@, kind)]
    /\ UNCHANGED <<speakOn, lastLine, hookLocks, hooks, queueDir, pidFile,
                   lockHolder, consumers, spoken>>
    /\ UNCHANGED TeamVoices

\* trap cleanup EXIT of speak_response.sh: rmdir "$HOOK_LOCK"
HookExits(h) ==
    /\ hookLocks' = hookLocks \ {hooks[h].transcript_path}
    /\ hooks' = [hooks EXCEPT ![h] = HookIdle]

\* the Stop hook fires: speak_response.sh:16-38, speech is enabled and the
\* transcript exists
HookFires(h, t) ==
    /\ hooks[h].at = "idle"
    /\ speakOn
    /\ hooks' = [hooks EXCEPT ![h] =
                    [HookIdle EXCEPT !.at = "lock", !.transcript_path = t]]
    /\ UNCHANGED <<speakOn, transcripts, lastLine, hookLocks, queueDir,
                   pidFile, lockHolder, consumers, spoken>>
    /\ UNCHANGED TeamVoices

\* while ! mkdir "$HOOK_LOCK": the mkdir that succeeds
HookLock(h) ==
    /\ hooks[h].at = "lock"
    /\ hooks[h].transcript_path \notin hookLocks
    /\ hookLocks' = hookLocks \cup {hooks[h].transcript_path}
    /\ hooks' = [hooks EXCEPT ![h].at = "count"]
    /\ UNCHANGED <<speakOn, transcripts, lastLine, queueDir, pidFile,
                   lockHolder, consumers, spoken>>
    /\ UNCHANGED TeamVoices

\* current_lines=$(wc -l < "$transcript_path")
HookCount(h) ==
    /\ hooks[h].at = "count"
    /\ hooks' = [hooks EXCEPT
                    ![h].at = "read",
                    ![h].current_lines =
                        Len(transcripts[hooks[h].transcript_path])]
    /\ UNCHANGED <<speakOn, transcripts, lastLine, hookLocks, queueDir,
                   pidFile, lockHolder, consumers, spoken>>
    /\ UNCHANGED TeamVoices

\* speak_response.sh:61-83: the state file, which only the holder of the
\* hook lock writes, then the tail of the transcript as it is now
HookRead(h) ==
    /\ hooks[h].at = "read"
    /\ LET t == hooks[h].transcript_path
           lines_to_check == hooks[h].current_lines - lastLine[t]
           last_message == IF lines_to_check <= 0 THEN 0
                           ELSE LastMessage(transcripts[t], lines_to_check)
       IN  IF last_message = 0
           THEN HookExits(h)
           ELSE /\ hooks' = [hooks EXCEPT ![h].at = "state",
                                          ![h].last_message = last_message]
                /\ UNCHANGED hookLocks
    /\ UNCHANGED <<speakOn, transcripts, lastLine, queueDir, pidFile,
                   lockHolder, consumers, spoken>>
    /\ UNCHANGED TeamVoices

\* echo "$current_lines" > "$STATE_FILE"
HookState(h) ==
    /\ hooks[h].at = "state"
    /\ lastLine' = [lastLine EXCEPT ![hooks[h].transcript_path] =
                        hooks[h].current_lines]
    /\ hooks' = [hooks EXCEPT ![h].at = "seq"]
    /\ UNCHANGED <<speakOn, transcripts, hookLocks, queueDir, pidFile,
                   lockHolder, consumers, spoken>>
    /\ UNCHANGED TeamVoices

\* speak_response.sh:107-111: the next sequence number
HookSeq(h) ==
    /\ hooks[h].at = "seq"
    /\ hooks' = [hooks EXCEPT ![h].at = "write",
                              ![h].SEQ = Highest(queueDir) + 1]
    /\ UNCHANGED <<speakOn, transcripts, lastLine, hookLocks, queueDir,
                   pidFile, lockHolder, consumers, spoken>>
    /\ UNCHANGED TeamVoices

\* echo "$clean_message" > "$MSG_FILE", which replaces a file of that name
HookWrite(h) ==
    /\ hooks[h].at = "write"
    /\ LET file == QueueFile(hooks[h].SEQ, "msg",
                             [transcript |-> hooks[h].transcript_path,
                              line |-> hooks[h].last_message])
       IN  queueDir' = {f \in queueDir :
                            ~(Stem(f) = Stem(file) /\ f.ext = "msg")}
                        \cup {file}
    /\ hooks' = [hooks EXCEPT ![h].at = "pid"]
    /\ UNCHANGED <<speakOn, transcripts, lastLine, hookLocks, pidFile,
                   lockHolder, consumers, spoken>>
    /\ UNCHANGED TeamVoices

\* if [ -f "$PID_FILE" ]; then pid=$(cat "$PID_FILE")
HookPid(h) ==
    /\ hooks[h].at = "pid"
    /\ hooks' = [hooks EXCEPT
                    ![h].at = IF pidFile = NoPid THEN "spawn" ELSE "kill",
                    ![h].pid = pidFile]
    /\ UNCHANGED <<speakOn, transcripts, lastLine, hookLocks, queueDir,
                   pidFile, lockHolder, consumers, spoken>>
    /\ UNCHANGED TeamVoices

\* if [ -n "$pid" ] && kill -0 "$pid": exit 0 when the consumer is running
HookKill(h) ==
    /\ hooks[h].at = "kill"
    /\ IF Alive(hooks[h].pid)
       THEN HookExits(h)
       ELSE /\ hooks' = [hooks EXCEPT ![h].at = "spawn"]
            /\ UNCHANGED hookLocks
    /\ UNCHANGED <<speakOn, transcripts, lastLine, queueDir, pidFile,
                   lockHolder, consumers, spoken>>
    /\ UNCHANGED TeamVoices

\* nohup lockf -k "$LOCK_FILE" "$CONSUMER_SCRIPT" &, then exit 0
HookSpawn(h) ==
    /\ hooks[h].at = "spawn"
    /\ \E c \in Consumers :
        /\ consumers[c].at = "none"
        /\ \A d \in Consumers : consumers[d].at = "none" => c <= d
        /\ consumers' = [consumers EXCEPT ![c].at = "waiting"]
    /\ HookExits(h)
    /\ UNCHANGED <<speakOn, transcripts, lastLine, queueDir, pidFile,
                   lockHolder, spoken>>
    /\ UNCHANGED TeamVoices

\* Variant: the lock is granted whoever holds it.
GrantedAlways(holder) == TRUE

\* lockf without -t waits until nobody holds consumer.lock
Granted(holder) == holder = NoPid

\* lockf takes consumer.lock and runs speech_consumer.sh
Acquire(c) ==
    /\ consumers[c].at = "waiting"
    /\ Granted(lockHolder)
    /\ lockHolder' = c
    /\ consumers' = [consumers EXCEPT ![c].at = "start"]
    /\ UNCHANGED <<speakOn, transcripts, lastLine, hookLocks, hooks, queueDir,
                   pidFile, spoken>>
    /\ UNCHANGED TeamVoices

\* speech_consumer.sh:54-82: echo $$ > "$PID_FILE", the trap, no
\* .processing file is five minutes old, idle_seconds=0
ConsumerStart(c) ==
    /\ consumers[c].at = "start"
    /\ pidFile' = c
    /\ consumers' = [consumers EXCEPT ![c].at = "loop",
                                      ![c].idle_seconds = 0]
    /\ UNCHANGED <<speakOn, transcripts, lastLine, hookLocks, hooks, queueDir,
                   lockHolder, spoken>>
    /\ UNCHANGED TeamVoices

\* speech_consumer.sh:85-96 and 112-122: one turn of the loop up to the mv
\* or through the sleep
LoopTop(c) ==
    /\ consumers[c].at = "loop"
    /\ LET msg_file == Oldest(queueDir)
           idle == consumers[c].idle_seconds + PollInterval
       IN  consumers' = [consumers EXCEPT ![c] =
                IF ~speakOn THEN [@ EXCEPT !.at = "cleanup"]
                ELSE IF msg_file # NoFile
                     THEN [at |-> "mv", msg_file |-> msg_file,
                           idle_seconds |-> 0]
                     ELSE [at |-> IF idle >= IdleTimeout THEN "cleanup"
                                  ELSE "loop",
                           msg_file |-> NoFile, idle_seconds |-> idle]]
    /\ UNCHANGED <<speakOn, transcripts, lastLine, hookLocks, hooks, queueDir,
                   pidFile, lockHolder, spoken>>
    /\ UNCHANGED TeamVoices

\* if mv "$msg_file" "$processing_file"
Mv(c) ==
    /\ consumers[c].at = "mv"
    /\ LET found == {f \in queueDir :
                        Stem(f) = consumers[c].msg_file /\ f.ext = "msg"}
       IN  IF found = {}
           THEN /\ consumers' = [consumers EXCEPT ![c].at = "loop"]
                /\ UNCHANGED queueDir
           ELSE /\ consumers' = [consumers EXCEPT ![c].at = "say"]
                /\ queueDir' =
                    {f \in queueDir :
                        ~(Stem(f) = consumers[c].msg_file)}
                    \cup {QueueFile(f.seq, "processing", f.text)
                            : f \in found}
    /\ UNCHANGED <<speakOn, transcripts, lastLine, hookLocks, hooks, pidFile,
                   lockHolder, spoken>>
    /\ UNCHANGED TeamVoices

\* message=$(cat "$processing_file"); speak_message "$message" begins
SayBegin(c) ==
    /\ consumers[c].at = "say"
    /\ consumers' = [consumers EXCEPT ![c].at = "speaking"]
    /\ UNCHANGED <<speakOn, transcripts, lastLine, hookLocks, hooks, queueDir,
                   pidFile, lockHolder, spoken>>
    /\ UNCHANGED TeamVoices

\* speak_message returns: rm -f "$processing_file", or under set -e the
\* script exits when it returned a failure
SayEnd(c, ok) ==
    /\ consumers[c].at = "speaking"
    /\ LET said == {f \in queueDir :
                        /\ Stem(f) = consumers[c].msg_file
                        /\ f.ext = "processing"}
       IN  IF ok
           THEN /\ queueDir' = queueDir \ said
                /\ spoken' = spoken \o
                        IF said = {} THEN <<>>
                        ELSE <<(CHOOSE f \in said : TRUE).text>>
                /\ consumers' = [consumers EXCEPT ![c].at = "loop"]
           ELSE /\ consumers' = [consumers EXCEPT ![c].at = "cleanup"]
                /\ UNCHANGED <<queueDir, spoken>>
    /\ UNCHANGED <<speakOn, transcripts, lastLine, hookLocks, hooks, pidFile,
                   lockHolder>>
    /\ UNCHANGED TeamVoices

\* trap cleanup EXIT: rm -f "$PID_FILE"
ConsumerCleanup(c) ==
    /\ consumers[c].at = "cleanup"
    /\ pidFile' = NoPid
    /\ consumers' = [consumers EXCEPT ![c].at = "exit"]
    /\ UNCHANGED <<speakOn, transcripts, lastLine, hookLocks, hooks, queueDir,
                   lockHolder, spoken>>
    /\ UNCHANGED TeamVoices

\* exit 0: the script is gone and lockf lets go of consumer.lock
ConsumerExit(c) ==
    /\ consumers[c].at = "exit"
    /\ lockHolder' = IF lockHolder = c THEN NoPid ELSE lockHolder
    /\ consumers' = [consumers EXCEPT ![c].at = "exited"]
    /\ UNCHANGED <<speakOn, transcripts, lastLine, hookLocks, hooks, queueDir,
                   pidFile, spoken>>
    /\ UNCHANGED TeamVoices

--------------------------------------------------------------------------
(* Specifications *)

InitProc ==
    /\ started = [p \in Procs |-> "new"]
    /\ muted = [p \in Procs |-> FALSE]
    /\ queue = [p \in Procs |-> <<>>]
    /\ isPlaying = [p \in Procs |-> FALSE]
    /\ pc = [p \in Procs |-> "idle"]
    /\ cur = [p \in Procs |-> NoItem]
    /\ ttsCalls = [p \in Procs |-> <<>>]
    /\ nEnded = [p \in Procs |-> 0]
    /\ caught = [p \in Procs |-> FALSE]
    /\ enqLog = [p \in Procs |-> <<>>]
    /\ trimmed = [p \in Procs |-> {}]
    /\ nextId = 0
    /\ lifeLog = <<>>
    /\ voiceAssignments = [p \in Procs |-> EmptyTable]
    /\ nextVoiceIndex = [p \in Procs |-> 0]
    /\ lastOp = [p \in Procs |-> NoOp]
    /\ firstGet = [p \in Procs |-> EmptyTable]
    /\ manualArg = [p \in Procs |-> [a \in {} |-> ""]]
    /\ autoLog = [p \in Procs |-> <<>>]
    /\ cfgVoices = EmptyTable
    /\ cfgNext = 0
    /\ saves = <<>>
    /\ files = [f \in Files |-> <<>>]
    /\ messageIndices = [f \in {} |-> 0]
    /\ watchers = {}
    /\ debounceTimers = {}
    /\ timeouts = {}
    /\ calls = {}
    /\ batch = <<>>
    /\ batchCall = NoCall
    /\ seenHashes = <<>>
    /\ inboxLog = {}
    /\ again = {}
    /\ failLog = {}
    /\ teamDirs = <<>>
    /\ scanned = 0
    /\ InitSpeech
    /\ insertLog = <<>>
    /\ dupResult = NoResult

\* Spec: the cooperating processes.  The state directory is fresh, or holds
\* what a killed process left: a descriptor nobody listens on.
Init ==
    /\ InitProc
    /\ sockFile \in BOOLEAN
    /\ listener = NoProc
    /\ cfgMuted = "none"

Next ==
    \E p \in Procs :
        \/ StartBegin(p)
        \/ StartEnd(p)
        \/ Cleanup(p)
        \/ ApiEnqueue(p, FALSE, MaxItems)
        \/ \E ok \in BOOLEAN : TTSDone(p, ok)
        \/ \E ok \in BOOLEAN : ExecDone(p, ok)
        \/ UnlinkDone(p)

Spec == Init /\ [][Next]_vars

\* SpecQueue: one process, every producer of its queue, mute and the config
\* record it is loaded from.
InitQueue ==
    /\ InitProc
    /\ sockFile = FALSE
    /\ listener = NoProc
    /\ cfgMuted \in {"none", "true", "false"}

NextQueue ==
    \/ InboxEnqueue(1, MaxItems)
    \/ Speak(1, MaxItems)
    \/ TestVoice(1, MaxItems)
    \/ \E b \in BOOLEAN : ApiEnqueue(1, b, MaxItems)
    \/ \E ok \in BOOLEAN : TTSDone(1, ok)
    \/ \E ok \in BOOLEAN : ExecDone(1, ok)
    \/ UnlinkDone(1)
    \/ DrainCall(1)
    \/ \E v \in BOOLEAN : Mute(1, v)
    \/ LoadConfig(1)

SpecQueue == InitQueue /\ [][NextQueue]_vars

\* every synthesis, playback and unlink call that is pending returns or
\* throws
CallsReturn ==
    /\ WF_vars(\E ok \in BOOLEAN : TTSDone(1, ok))
    /\ WF_vars(\E ok \in BOOLEAN : ExecDone(1, ok))
    /\ WF_vars(UnlinkDone(1))

\* SpecQueueFair: one process under inbox and direct enqueues and mute,
\* where no pending call hangs for ever; the enqueues stop with the
\* MaxItems-th.
NextQueueFair ==
    \/ InboxEnqueue(1, MaxItems)
    \/ \E b \in BOOLEAN : ApiEnqueue(1, b, MaxItems)
    \/ \E ok \in BOOLEAN : TTSDone(1, ok)
    \/ \E ok \in BOOLEAN : ExecDone(1, ok)
    \/ UnlinkDone(1)
    \/ \E v \in BOOLEAN : Mute(1, v)

InitQueueFair ==
    /\ InitProc
    /\ sockFile = FALSE
    /\ listener = NoProc
    /\ cfgMuted = "none"

SpecQueueFair == InitQueueFair /\ [][NextQueueFair]_vars /\ CallsReturn

\* SpecBurst: one process under a burst of test-voice calls long enough for
\* the backlog trim, after a prefix of calls by every producer.
InitBurst ==
    /\ InitProc
    /\ sockFile = FALSE
    /\ listener = NoProc
    /\ cfgMuted = "none"

NextBurst ==
    \/ InboxEnqueue(1, MaxPrefix)
    \/ Speak(1, MaxPrefix)
    \/ \E b \in BOOLEAN : ApiEnqueue(1, b, MaxPrefix)
    \/ \E v \in BOOLEAN : MuteEarly(1, v, MaxPrefix)
    \/ TestVoice(1, MaxBurst)
    \/ \E ok \in BOOLEAN : TTSDone(1, ok)
    \/ \E ok \in BOOLEAN : ExecDone(1, ok)
    \/ UnlinkDone(1)

SpecBurst == InitBurst /\ [][NextBurst]_vars

\* loadConfig as index.mjs calls it: first, before any voice-table call
StartupLoad(p) ==
    /\ lastOp[p] = NoOp
    /\ LoadConfig(p)

\* assignVoice called for some agent
AssignAny(p, given, limit) ==
    \E a \in Targets(p, given, limit) : AssignVoice(p, a)

\* getVoiceForAgent called for some agent
GetAny(p, given, limit) ==
    \E a \in Targets(p, given, limit) : GetVoiceForAgent(p, a)

\* SpecDedup: isDuplicate on one fingerprint set, given more distinct
\* messages than the set keeps, and the first and the latest one again.
InitDedup ==
    /\ InitProc
    /\ sockFile = FALSE
    /\ listener = NoProc
    /\ cfgMuted = "none"

NextDedup == IsDuplicateCall(MaxDistinct)

SpecDedup == InitDedup /\ [][NextDedup]_vars

\* the messages of the inbox runs: two that differ in the timestamp only,
\* two that differ in a missing and an empty sender only, and a null element
MessageA1 == Message("a", "x", "1")

MessageA2 == Message("a", "x", "2")

MessageNoFrom == Message(Undefined, "x", "1")

MessageEmptyFrom == Message("", "x", "1")

OneFile == "inboxes/researcher.json"

InitInbox ==
    /\ InitProc
    /\ sockFile = FALSE
    /\ listener = NoProc
    /\ cfgMuted = "none"

\* SpecInbox: one process watching one inbox file that only grows, under
\* the initial read, notifications, the safety poll and failing reads.
NextInbox ==
    \/ \E m \in {MessageA1, MessageA2, NullMessage} :
            AppendMessage(OneFile, m, MaxFileLen)
    \/ WatchInboxFile(OneFile)
    \/ Notify(OneFile)
    \/ TimerFires(OneFile)
    \/ SafetyPoll(OneFile)
    \/ \E ok \in BOOLEAN : ReadAny(ok)
    \/ ReadNotArrayAny
    \/ TakeAny
    \/ HandleNext

SpecInbox == InitInbox /\ [][NextInbox]_vars

\* SpecUnwatch: one process watching one inbox file that grows and is cut,
\* under notifications, the safety poll and watcher errors.
NextUnwatch ==
    \/ AppendMessage(OneFile, MessageA1, MaxFileLen)
    \/ DropLast(OneFile)
    \/ WatchInboxFile(OneFile)
    \/ Notify(OneFile)
    \/ TimerFires(OneFile)
    \/ WatcherError(OneFile)
    \/ SafetyPoll(OneFile)
    \/ \E ok \in BOOLEAN : ReadAny(ok)
    \/ TakeAny
    \/ HandleNext

SpecUnwatch == InitInbox /\ [][NextUnwatch]_vars

\* SpecFanout: one process watching the inboxes of two members, each of
\* which is given up to MaxBroadcast messages.
NextFanout ==
    \/ \E f \in Files,
          m \in {MessageA1, MessageA2, MessageNoFrom, MessageEmptyFrom} :
            AppendMessage(f, m, MaxBroadcast)
    \/ \E f \in Files : WatchInboxFile(f)
    \/ ReadAny(TRUE)
    \/ TakeAny
    \/ HandleNext

SpecFanout == InitInbox /\ [][NextFanout]_vars

\* 'a'.repeat(n)
RECURSIVE repeat(_, _)
repeat(str, n) ==
    IF n = 0 THEN ""
    ELSE IF n % 2 = 0
         THEN LET half == repeat(str, n \div 2) IN half \o half
         ELSE str \o repeat(str, n - 1)

\* the texts that are missing, empty or white space only
BlankTexts == {Undefined, "", "  ", " \t\n "}

\* the texts that are a JSON payload of type idle_notification
IdleTexts == {IdleText, " " \o IdleText, IdleText \o "\n"}

\* the texts of the text runs: the above, every JSON document, a text that
\* only begins like one, plain texts and texts with Markdown
SayTexts ==
    BlankTexts \cup IdleTexts \cup DOMAIN JsonDocs \cup DOMAIN Stripped
        \cup {"{not valid json at all", "Hello team!", "  hello  "}

\* texts whose rendering is up to MaxOver characters short of the limit or
\* over it
LongMessages ==
    {Message("x", repeat("a", n), "1") :
        n \in (SpokenLimit - Len("x says: ") - MaxOver)
                ..(SpokenLimit - Len("x says: ") + MaxOver)}

\* the messages of the text runs: every text from one sender, a message
\* without a sender, messages with a summary, and the long ones
SayMessages ==
    {Message("alice", t, "1") : t \in SayTexts}
        \cup {Message(Undefined, "hello", "1"),
              MessageWith("bob", "long message", "1", "short"),
              MessageWith("lead", TaskText, "1", "New task"),
              Message("x", repeat("a", 600), "1")}
        \cup LongMessages

\* another process appends one of the messages
AppendAny(f, msgs, limit) == \E m \in msgs : AppendMessage(f, m, limit)

\* SpecSay: one process watching one inbox file that is given up to
\* MaxBroadcast messages of every kind of text.
NextSay ==
    \/ AppendAny(OneFile, SayMessages, MaxBroadcast)
    \/ WatchInboxFile(OneFile)
    \/ ReadAny(TRUE)
    \/ TakeAny
    \/ HandleNext

SpecSay == InitInbox /\ [][NextSay]_vars

\* the ways fs.readdir can list the team directories, each with one kind of
\* config.json
ScanOrders ==
    {<<[team |-> a, config |-> ca], [team |-> b, config |-> cb]>> :
        a \in Teams, b \in Teams, ca \in Descriptors, cb \in Descriptors}

\* the inbox files as they are before the server starts
ExistingInboxes ==
    [Files -> {<<>>, <<MessageA1>>, <<MessageA1, MessageA2>>}]

\* a process before startInboxWatcher, whatever the teams directory holds
BeforeScan ==
    /\ started = [p \in Procs |-> "new"]
    /\ muted = [p \in Procs |-> FALSE]
    /\ queue = [p \in Procs |-> <<>>]
    /\ isPlaying = [p \in Procs |-> FALSE]
    /\ pc = [p \in Procs |-> "idle"]
    /\ cur = [p \in Procs |-> NoItem]
    /\ ttsCalls = [p \in Procs |-> <<>>]
    /\ nEnded = [p \in Procs |-> 0]
    /\ caught = [p \in Procs |-> FALSE]
    /\ enqLog = [p \in Procs |-> <<>>]
    /\ trimmed = [p \in Procs |-> {}]
    /\ nextId = 0
    /\ lifeLog = <<>>
    /\ voiceAssignments = [p \in Procs |-> EmptyTable]
    /\ nextVoiceIndex = [p \in Procs |-> 0]
    /\ lastOp = [p \in Procs |-> NoOp]
    /\ firstGet = [p \in Procs |-> EmptyTable]
    /\ manualArg = [p \in Procs |-> [a \in {} |-> ""]]
    /\ autoLog = [p \in Procs |-> <<>>]
    /\ cfgVoices = EmptyTable
    /\ cfgNext = 0
    /\ saves = <<>>
    /\ messageIndices = [f \in {} |-> 0]
    /\ watchers = {}
    /\ debounceTimers = {}
    /\ timeouts = {}
    /\ calls = {}
    /\ batch = <<>>
    /\ batchCall = NoCall
    /\ seenHashes = <<>>
    /\ inboxLog = {}
    /\ again = {}
    /\ failLog = {}
    /\ scanned = 0
    /\ InitSpeech
    /\ insertLog = <<>>
    /\ dupResult = NoResult
    /\ sockFile = FALSE
    /\ listener = NoProc
    /\ cfgMuted = "none"

InitScan ==
    /\ BeforeScan
    /\ files \in ExistingInboxes
    /\ teamDirs \in {d \in ScanOrders : d[1].team # d[2].team}

\* SpecScan: one process started over two team directories whose inboxes
\* hold messages already, then notified, polled and torn down.
NextScan ==
    \/ StartBegin(Watcher)
    \/ ScanTeamDir
    \/ StartEnd(Watcher)
    \/ Cleanup(Watcher)
    \/ \E f \in Files : Notify(f)
    \/ \E f \in Files : TimerFires(f)
    \/ \E f \in Files : SafetyPoll(f)
    \/ ReadAny(TRUE)
    \/ TakeAny
    \/ HandleNext

SpecScan == InitScan /\ [][NextScan]_vars

\* the inbox of the member a team gains, and of the member it has
NewInbox == "inboxes/tester.json"
OldInbox == "inboxes/researcher.json"

\* config.json of a team whose members array has gained a member
GrownMembers(dir) ==
    IF dir.config = "grown" THEN {OldInbox, NewInbox} ELSE TeamMembers(dir)

\* one team directory: its config.json and the inbox files that exist in it
GrowingTeam(present) ==
    [team |-> "my-team", config |-> "members", present |-> present]

InitGrow ==
    /\ BeforeScan
    /\ \E present \in {{OldInbox}, {OldInbox, NewInbox}} :
            /\ teamDirs = <<GrowingTeam(present)>>
            /\ files \in {fs \in ExistingInboxes :
                            NewInbox \notin present => fs[NewInbox] = <<>>}

\* the team lead rewrites config.json with one more member; the fs.watch
\* callback scanTeamDir registered clears the timer entry and sets a
\* timeout of 500 ms
MemberAdded ==
    /\ batch = <<>>
    /\ scanned = Len(teamDirs)
    /\ teamDirs[1].config = "members"
    /\ teamDirs' = [teamDirs EXCEPT ![1].config = "grown"]
    /\ LET key == ConfigWatchKey(teamDirs[1].team)
       IN  IF key \in watchers
           THEN /\ debounceTimers' = debounceTimers \cup {key}
                /\ timeouts' = timeouts \cup {key}
           ELSE UNCHANGED <<debounceTimers, timeouts>>
    /\ UNCHANGED <<files, messageIndices, watchers, calls, batch, batchCall,
                   inboxLog, again, failLog, scanned, Speech>>
    /\ UNCHANGED <<QueueSide, Config, Voices, Hashes>>

\* the first message to the new member creates its inbox file
InboxCreated ==
    /\ batch = <<>>
    /\ NewInbox \notin teamDirs[1].present
    /\ teamDirs' = [teamDirs EXCEPT ![1].present = @ \cup {NewInbox}]
    /\ files' = [files EXCEPT ![NewInbox] = <<MessageA1>>]
    /\ UNCHANGED <<messageIndices, watchers, debounceTimers, timeouts, calls,
                   batch, batchCall, inboxLog, again, failLog, scanned,
                   Speech>>
    /\ UNCHANGED <<QueueSide, Config, Voices, Hashes>>

\* a message is appended to an inbox file that exists
AppendExisting(f) ==
    /\ f \in teamDirs[1].present
    /\ AppendMessage(f, MessageA2, MaxFileLen)

\* the 500 ms timeout fires: scanTeamDir(teamDir).  watchInboxFile returns
\* for an inbox that is watched, fs.watch throws for one that does not
\* exist (caught and logged), and the config.json watcher is set only when
\* its key is not there.
ConfigTimerFires ==
    /\ batch = <<>>
    /\ LET dir == teamDirs[1]
           key == ConfigWatchKey(dir.team)
           unwatched == GrownMembers(dir) \ watchers
           new == unwatched \cap dir.present
       IN  /\ key \in timeouts
           /\ timeouts' = timeouts \ {key}
           /\ Cardinality(calls) + Cardinality(new) <= MaxCalls
           /\ watchers' = watchers \cup new \cup {key}
           /\ calls' = calls \cup {Call(f, Retries, "unread", <<>>) : f \in new}
    /\ UNCHANGED <<files, messageIndices, debounceTimers, batch, batchCall,
                   inboxLog, again, failLog, teamDirs, scanned, Speech>>
    /\ UNCHANGED <<QueueSide, Config, Voices, Hashes>>

\* SpecGrow: one process started over one team whose config.json gains a
\* member afterwards.
NextGrow ==
    \/ StartBegin(Watcher)
    \/ ScanTeamDir
    \/ StartEnd(Watcher)
    \/ MemberAdded
    \/ InboxCreated
    \/ ConfigTimerFires
    \/ \E f \in Files : AppendExisting(f)
    \/ \E f \in Files : Notify(f)
    \/ \E f \in Files : TimerFires(f)
    \/ \E f \in Files : SafetyPoll(f)
    \/ ReadAny(TRUE)
    \/ TakeAny
    \/ HandleNext

SpecGrow == InitGrow /\ [][NextGrow]_vars

\* SpecSpeech: two hook processes on one transcript and the consumers they
\* spawn.
NextSpeech ==
    \/ \E t \in Transcripts, kind \in {"text", "tool"} : Respond(t, kind)
    \/ \E h \in HookProcs, t \in Transcripts : HookFires(h, t)
    \/ \E h \in HookProcs :
            \/ HookLock(h)
            \/ HookCount(h)
            \/ HookRead(h)
            \/ HookState(h)
            \/ HookSeq(h)
            \/ HookWrite(h)
            \/ HookPid(h)
            \/ HookKill(h)
            \/ HookSpawn(h)
    \/ \E c \in Consumers :
            \/ Acquire(c)
            \/ ConsumerStart(c)
            \/ LoopTop(c)
            \/ Mv(c)
            \/ SayBegin(c)
            \/ \E ok \in BOOLEAN : SayEnd(c, ok)
            \/ ConsumerCleanup(c)
            \/ ConsumerExit(c)

SpecSpeech == InitInbox /\ [][NextSpeech]_vars

\* SpecHandoff: SpecSpeech where say never fails, so that a consumer only
\* exits at the idle timeout.
NextHandoff ==
    \/ \E t \in Transcripts, kind \in {"text", "tool"} : Respond(t, kind)
    \/ \E h \in HookProcs, t \in Transcripts : HookFires(h, t)
    \/ \E h \in HookProcs :
            \/ HookLock(h)
            \/ HookCount(h)
            \/ HookRead(h)
            \/ HookState(h)
            \/ HookSeq(h)
            \/ HookWrite(h)
            \/ HookPid(h)
            \/ HookKill(h)
            \/ HookSpawn(h)
    \/ \E c \in Consumers :
            \/ Acquire(c)
            \/ ConsumerStart(c)
            \/ LoopTop(c)
            \/ Mv(c)
            \/ SayBegin(c)
            \/ SayEnd(c, TRUE)
            \/ ConsumerCleanup(c)
            \/ ConsumerExit(c)

SpecHandoff == InitInbox /\ [][NextHandoff]_vars

\* SpecVoice: the voice table of one process under every kind of call and
\* of manual argument.
InitVoice ==
    /\ InitProc
    /\ sockFile = FALSE
    /\ listener = NoProc
    /\ cfgMuted = "none"

NextVoice ==
    \/ AssignAny(1, Tracked, MaxAgents)
    \/ GetAny(1, Tracked, MaxAgents)
    \/ \E a \in Tracked, v \in VoiceInputs : ManualAssignVoice(1, a, v)

SpecVoice == InitVoice /\ [][NextVoice]_vars

\* SpecSave: one process whose voice-table and mute calls start config
\* writes that settle later, in any order.
NextSave ==
    \/ \E a \in Tracked : AssignVoiceBegins(1, a)
    \/ \E a \in Tracked, v \in {"rachel", "custom-voice-abc123"} :
            ManualAssignBegins(1, a, v)
    \/ \E v \in BOOLEAN : MuteBegins(1, v)
    \/ SaveStringifiesAny(1)
    \/ SaveWrittenAny

SpecSave == InitVoice /\ [][NextSave]_vars

\* SpecWrap: the voice table of one process from the empty table, with
\* enough new agents for the cursor to wrap around the pool, and repeated
\* lookups and manual assignments of one agent in between.
InitWrap ==
    /\ InitProc
    /\ sockFile = FALSE
    /\ listener = NoProc
    /\ cfgMuted = "none"

NextWrap ==
    \/ AssignAny(1, {AgentNames[1]}, MaxFresh)
    \/ GetAny(1, {AgentNames[1]}, MaxFresh)
    \/ ManualAssignVoice(1, AgentNames[1], "BELLA")
    \/ StartupLoad(1)

SpecWrap == InitWrap /\ [][NextWrap]_vars

\* p serves calls: process 1 from the start, a later process once it has
\* loaded the config record, and each only until its successor is started
Live(p) ==
    /\ p = 1 \/ started[p] = "loaded"
    /\ \A q \in Procs : q > p => started[q] = "new"

\* the new agents p sees: MaxAgents before the restart, one more after it
RestartLimit(p) == IF p = 1 THEN MaxAgents ELSE MaxAgents + 1

RunAssign(p) == Live(p) /\ AssignAny(p, Tracked, RestartLimit(p))

RunManual(p, a, v) == Live(p) /\ ManualAssignVoice(p, a, v)

RunMute(p, v) == Live(p) /\ Mute(p, v)

\* a fresh process on the same state directory runs loadConfig
Restart(p) == p > 1 /\ LoadConfig(p)

\* SpecRestart: process 1 changes the voice table and mute, each change
\* saved; then process 2 starts on the same state directory, loads the
\* config record and assigns on.
InitRestart ==
    /\ InitProc
    /\ sockFile = FALSE
    /\ listener = NoProc
    /\ cfgMuted = "none"

NextRestart ==
    \/ \E p \in Procs : RunAssign(p)
    \/ \E a \in Tracked, v \in {"rachel", "custom-voice-abc123"} :
            RunManual(1, a, v)
    \/ \E v \in BOOLEAN : RunMute(1, v)
    \/ Restart(2)

SpecRestart == InitRestart /\ [][NextRestart]_vars

--------------------------------------------------------------------------
(* Vocabulary of the properties *)

\* p is inside a synthesis or playback call
Speaking(p) == pc[p] \in {"tts", "exec"}

Running(p) == started[p] = "running"

TtsIds(p) == {ttsCalls[p][i].item.id : i \in 1..Len(ttsCalls[p])}

QueueIds(p) == {queue[p][i].id : i \in 1..Len(queue[p])}

AcceptedIds(p) == {enqLog[p][i].id : i \in {j \in 1..Len(enqLog[p]) : enqLog[p][j].accepted}}

Increasing(s) == \A i, j \in 1..Len(s) : i < j => s[i] < s[j]

\* playback attempts begun and not yet ended
InFlight(p) == Len(ttsCalls[p]) - nEnded[p]

\* nothing playing and nothing waiting
Quiescent(p) == ~isPlaying[p] /\ Len(queue[p]) = 0

\* position of the first lifeLog event (p, ev), 0 if there is none
LifeAt(p, ev) ==
    LET at == {i \in 1..Len(lifeLog) : lifeLog[i].proc = p /\ lifeLog[i].ev = ev}
    IN  IF at = {} THEN 0 ELSE CHOOSE i \in at : \A j \in at : i <= j

\* the step is an enqueue call on p
EnqueueStep(p) == Len(enqLog'[p]) = Len(enqLog[p]) + 1

--------------------------------------------------------------------------
(* C1: at every instant, among the processes that share the state directory
   and have completed startInboxWatcher, at most one is inside a synthesis
   or playback call. *)
C1_OneSpeakerSystemWide ==
    \A p, q \in Procs :
        (p # q /\ Running(p) /\ Running(q)) => ~(Speaking(p) /\ Speaking(q))

\* Attempts begun and not ended: none or one, and isPlaying tells which.
C2_AtMostOneInFlight ==
    \A p \in Procs :
        /\ InFlight(p) \in {0, 1}
        /\ isPlaying[p] <=> (InFlight(p) = 1)

\* A step that ends no attempt starts no synthesis while isPlaying is true.
C2_DrainWhilePlayingStartsNothing ==
    \A p \in Procs :
        (isPlaying[p] /\ nEnded'[p] = nEnded[p]) => ttsCalls'[p] = ttsCalls[p]

(* C2: within one process at most one item is in flight between the start
   of its synthesis and the end of its playback attempt: the next item's
   synthesis never starts before the previous attempt has ended, and a drain
   call made while isPlaying is true (from enqueue or directly) starts no
   synthesis. *)
C2_OneInFlight ==
    []C2_AtMostOneInFlight /\ [][C2_DrainWhilePlayingStartsNothing]_vars

C2_Witness ==
    /\ isPlaying[1]
    /\ nEnded[1] >= 1
    /\ Len(ttsCalls[1]) >= 2
    /\ Len(queue[1]) >= 1

(* C3: within one process the accepted items that no trim removed are
   synthesized in the order they were enqueued: the synthesized ids are
   increasing, every waiting item was enqueued after every synthesized one
   and the queue is in enqueue order, and every accepted item is exactly one
   of synthesized, waiting or trimmed, whichever producer enqueued it. *)
C3_ArrivalOrder ==
    \A p \in Procs :
        /\ Increasing([i \in 1..Len(ttsCalls[p]) |-> ttsCalls[p][i].item.id])
        /\ Increasing(Ids(queue[p]))
        /\ \A a \in TtsIds(p), b \in QueueIds(p) : a < b
        /\ AcceptedIds(p) = TtsIds(p) \cup QueueIds(p) \cup trimmed[p]
        /\ TtsIds(p) \cap trimmed[p] = {}
        /\ QueueIds(p) \cap trimmed[p] = {}
        /\ Len(ttsCalls[p]) = Cardinality(TtsIds(p))

C3_Witness ==
    /\ trimmed[1] # {}
    /\ Len(ttsCalls[1]) >= 3
    /\ \E i, j \in 1..Len(ttsCalls[1]) :
            ttsCalls[1][i].item.from # ttsCalls[1][j].item.from
    /\ \E a \in TtsIds(1), t \in trimmed[1] : a > t

(* C4: if P1 completes startup before P2 starts, P1 is Leader (the
   listener of playback.sock) and P2 is Follower, and an item P2 enqueues
   once it runs is synthesized by P1 and never by P2. *)
C4_FollowerForwardsToLeader ==
    \A p1, p2 \in Procs :
        (/\ p1 # p2
         /\ LifeAt(p1, "end") > 0
         /\ LifeAt(p1, "end") < LifeAt(p2, "begin")
         /\ LifeAt(p1, "cleanup") = 0)
        => \A i \in 1..Len(enqLog[p2]) :
                p2 \in enqLog[p2][i].up
                => /\ listener = p1
                   /\ enqLog[p2][i].id \notin TtsIds(p2)

(* C5: when two processes start concurrently against the same stale
   descriptor, both startups complete with exactly one Leader and one
   Follower, and every item enqueued afterwards on either process is
   synthesized exactly once, by that Leader. *)
C5_ConcurrentRecovery ==
    (/\ \A p \in Procs : Running(p)
     /\ \A p \in Procs : lifeLog[LifeAt(p, "begin")].stale
     /\ \A p, q \in Procs : LifeAt(p, "begin") < LifeAt(q, "end")
     /\ \A p \in Procs : LifeAt(p, "cleanup") = 0)
    => \A p \in Procs : \A i \in 1..Len(enqLog[p]) :
            enqLog[p][i].up = Procs
            => /\ listener \in Procs
               /\ \A q \in Procs \ {listener} : enqLog[p][i].id \notin TtsIds(q)

(* C6: a process that starts when playback.sock exists and nobody listens
   on it becomes Leader, and the items enqueued on it afterwards are
   synthesized locally. *)
C6_StaleRecovery ==
    \A p \in Procs :
        (/\ Running(p)
         /\ lifeLog[LifeAt(p, "begin")].stale
         /\ LifeAt(p, "cleanup") = 0
         /\ \A q \in Procs \ {p} : started[q] = "new")
        => \A i \in 1..Len(enqLog[p]) :
                p \in enqLog[p][i].up
                => /\ listener = p
                   /\ enqLog[p][i].id \in TtsIds(p) \cup QueueIds(p) \cup trimmed[p]

(* C7: after the Leader runs cleanup the listening channel is closed and
   the descriptor removed, and the next process to start becomes Leader and
   synthesizes the items enqueued on it locally. *)
C7_CleanupAllowsNewLeader ==
    \A p, q \in Procs :
        (/\ p # q
         /\ LifeAt(p, "cleanup") > 0
         /\ ~lifeLog[LifeAt(p, "begin")].stale
         /\ (LifeAt(q, "begin") = 0 \/ LifeAt(q, "begin") > LifeAt(p, "cleanup")))
        => /\ started[q] = "new" => (~sockFile /\ listener = NoProc)
           /\ \A i \in 1..Len(enqLog[q]) :
                q \in enqLog[q][i].up
                => /\ listener = q
                   /\ enqLog[q][i].id \in TtsIds(q) \cup QueueIds(q) \cup trimmed[q]

\* the enqueue calls made on p while muted, with the given bypassMute
MutedCalls(p, bypass) ==
    {i \in 1..Len(enqLog[p]) : enqLog[p][i].muted /\ enqLog[p][i].bypassMute = bypass}

\* An item refused by the mute check is never waiting, synthesized or trimmed.
C8_RejectedNeverPlayed ==
    \A p \in Procs : \A i \in MutedCalls(p, FALSE) :
        enqLog[p][i].id \notin TtsIds(p) \cup QueueIds(p) \cup trimmed[p]

(* C8: while muted, an enqueue call with falsy bypassMute leaves the queue
   unchanged and its item is never synthesized; an enqueue call with
   bypassMute true made while muted is appended and synthesized: once the
   process has nothing playing and nothing waiting, the item has been
   synthesized. *)
C8_MutedEnqueue ==
    /\ C8_RejectedNeverPlayed
    /\ \A p \in Procs : \A i \in MutedCalls(p, TRUE) :
            /\ enqLog[p][i].id \in TtsIds(p) \cup QueueIds(p) \cup trimmed[p]
            /\ Quiescent(p) => enqLog[p][i].id \in TtsIds(p)

\* A bypassMute item accepted while muted is waiting, synthesized or trimmed,
\* and no longer waiting once the queue has drained.
C8_BypassKept ==
    \A p \in Procs : \A i \in MutedCalls(p, TRUE) :
        /\ enqLog[p][i].id \in TtsIds(p) \cup QueueIds(p) \cup trimmed[p]
        /\ Quiescent(p) => enqLog[p][i].id \in TtsIds(p) \cup trimmed[p]

\* The enqueue step itself: a refused item changes neither the queue nor the
\* synthesis calls; a bypassMute item becomes the tail of the queue, or the
\* item in synthesis when nothing was playing.
C8_EnqueueStepWhileMuted ==
    \A p \in Procs :
        (EnqueueStep(p) /\ muted[p]) =>
            LET call == Last(enqLog'[p]) IN
            IF call.bypassMute
            THEN \/ (queue'[p] # <<>> /\ Last(queue'[p]).id = call.id)
                 \/ (~isPlaying[p] /\ queue[p] = <<>> /\ cur'[p].id = call.id
                        /\ Last(ttsCalls'[p]).item.id = call.id)
            ELSE queue'[p] = queue[p] /\ ttsCalls'[p] = ttsCalls[p]

(* C8 as amended: while muted, an enqueue call with falsy bypassMute leaves
   the queue unchanged and its item is never synthesized; an enqueue call
   with bypassMute true made while muted is appended, and once the queue has
   drained it has been synthesized unless a backlog trim removed it first. *)
C8_MutedEnqueueUnlessTrimmed ==
    /\ [](C8_RejectedNeverPlayed /\ C8_BypassKept)
    /\ [][C8_EnqueueStepWhileMuted]_vars

C8_Witness ==
    /\ muted[1]
    /\ Quiescent(1)
    /\ MutedCalls(1, FALSE) # {}
    /\ \E i \in MutedCalls(1, TRUE) : enqLog[1][i].id \in TtsIds(1)
    /\ \E i \in MutedCalls(1, TRUE) : enqLog[1][i].id \in trimmed[1]

(* C9: while muted is true no item without bypassMute begins synthesis,
   whether it was already in the backlog when mute was turned on or was
   submitted through the speak tool. *)
C9_MuteStopsVoiceOutput ==
    \A p \in Procs : \A i \in 1..Len(ttsCalls[p]) :
        ttsCalls[p][i].muted => ttsCalls[p][i].item.bypassMute

\* An accepted enqueue that finds 10 or more items waiting leaves the 5
\* newest of them, in order, and then the new item.
C10_TrimStep ==
    \A p \in Procs :
        (EnqueueStep(p) /\ Last(enqLog'[p]).accepted /\ Len(queue[p]) >= 10) =>
            /\ Len(queue'[p]) = 6
            /\ \A k \in 1..5 : queue'[p][k] = queue[p][Len(queue[p]) - 5 + k]
            /\ queue'[p][6].id = Last(enqLog'[p]).id

\* the accepted enqueue calls of p, in order
AcceptedCalls(p) == SelectSeq(enqLog[p], LAMBDA c : c.accepted)

\* Blocked on the first accepted item with 11 more accepted behind it: the
\* backlog is the 6th to 10th of those and then the 11th.
C10_ElevenWhileBlocked ==
    \A p \in Procs :
        (Len(ttsCalls[p]) = 1 /\ nEnded[p] = 0 /\ Len(AcceptedCalls(p)) = 12) =>
            Ids(queue[p]) = [k \in 1..6 |-> AcceptedCalls(p)[6 + k].id]

(* C10: when enqueue triggers a backlog trim, the queue becomes the 5 most
   recently enqueued pending items, in their order, followed by the new
   item; and after 11 accepted enqueues made while drain is blocked on an
   earlier item the backlog is exactly pending items 6 through 10 and then
   the 11th. *)
C10_TrimKeepsNewestFive ==
    []C10_ElevenWhileBlocked /\ [][C10_TrimStep]_vars

C10_Witness ==
    /\ Len(ttsCalls[1]) = 1
    /\ nEnded[1] = 0
    /\ Len(AcceptedCalls(1)) = 12
    /\ Len(queue[1]) = 6
    /\ Cardinality(trimmed[1]) = 5

--------------------------------------------------------------------------
(* C11: the backlog is trimmed to its 5 most recent items whenever
   appending a new item would bring it to 10 or more items, so that in
   every reachable state the pending backlog holds at most 6 items. *)
C11_BacklogAtMostSix ==
    \A p \in Procs : Len(queue[p]) <= 6

\* The backlog never holds more than 10 items.
C11_BacklogAtMostTen ==
    \A p \in Procs : Len(queue[p]) <= 10

\* An accepted enqueue trims exactly when 10 or more items are waiting, and
\* then leaves 6; otherwise it removes nothing and the backlog grows by the
\* new item unless drain takes the item at once.
C11_TrimWhenTenWaiting ==
    \A p \in Procs :
        (EnqueueStep(p) /\ Last(enqLog'[p]).accepted) =>
            IF Len(queue[p]) >= 10
            THEN /\ Len(queue'[p]) = 6
                 /\ Cardinality(trimmed'[p] \ trimmed[p]) = Len(queue[p]) - 5
            ELSE /\ trimmed'[p] = trimmed[p]
                 /\ \/ Ids(queue'[p]) = Append(Ids(queue[p]), Last(enqLog'[p]).id)
                    \/ (queue[p] = <<>> /\ queue'[p] = <<>> /\ cur'[p].id = Last(enqLog'[p]).id)

(* C11 as amended: the backlog is trimmed to its 5 most recent items
   whenever a new item is appended to a backlog that already holds 10 or
   more items, so that in every reachable state the pending backlog holds
   at most 10 items, and 6 right after a trim. *)
C11_TrimBoundsBacklog ==
    []C11_BacklogAtMostTen /\ [][C11_TrimWhenTenWaiting]_vars

C11_Witness ==
    /\ trimmed[1] # {}
    /\ Len(queue[1]) = 6
    /\ isPlaying[1]

--------------------------------------------------------------------------
\* Nothing waits while nothing plays, and isPlaying is set exactly while an
\* attempt is between its synthesis call and its end.
C12_NoStall ==
    \A p \in Procs :
        /\ isPlaying[p] <=> pc[p] # "idle"
        /\ ~isPlaying[p] => queue[p] = <<>>

\* The step in which generateTTS or execAsync throws
ThrowStep(p) ==
    /\ pc[p] \in {"tts", "exec"}
    /\ nEnded'[p] = nEnded[p] + 1

\* A throw ends the attempt inside drain: the next waiting item, if any,
\* goes to synthesis in the same step, otherwise isPlaying is false; the
\* record of enqueue calls is untouched.
C12_ThrowIsCaught ==
    \A p \in Procs :
        ThrowStep(p) =>
            /\ caught'[p]
            /\ enqLog' = enqLog
            /\ IF queue[p] = <<>>
               THEN ~isPlaying'[p] /\ pc'[p] = "idle" /\ ttsCalls'[p] = ttsCalls[p]
               ELSE /\ isPlaying'[p] /\ pc'[p] = "tts"
                    /\ cur'[p] = Head(queue[p])
                    /\ queue'[p] = Tail(queue[p])
                    /\ Len(ttsCalls'[p]) = Len(ttsCalls[p]) + 1
                    /\ Last(ttsCalls'[p]).item = Head(queue[p])

(* C12: when synthesis or playback of an item throws, the error is caught,
   isPlaying is reset to false, and drain proceeds to the next queued item;
   a failing item never stalls the queue and never propagates an exception
   to the caller of enqueue. *)
C12_ErrorRecovery ==
    []C12_NoStall /\ [][C12_ThrowIsCaught]_vars

C12_Witness ==
    /\ caught[1]
    /\ pc[1] = "tts"
    /\ Len(ttsCalls[1]) >= 2
    /\ nEnded[1] = Len(ttsCalls[1]) - 1

--------------------------------------------------------------------------
(* C17: getVoiceFor(A) is idempotent: absent an intervening
   manualAssign(A, .), calling it any number of times returns the same
   voice, and repeated lookups do not advance the assignment cursor. *)
C17_LookupIdempotent ==
    \A p \in Procs :
        /\ \A a \in DOMAIN firstGet[p] :
                /\ a \in DOMAIN voiceAssignments[p]
                /\ voiceAssignments[p][a] = firstGet[p][a]
        /\ (lastOp[p].op = "get" /\ lastOp[p].repeat) =>
                /\ lastOp[p].result = firstGet[p][lastOp[p].agent]
                /\ ~lastOp[p].advanced

C17_Witness ==
    /\ lastOp[1].op = "get"
    /\ lastOp[1].repeat
    /\ lastOp[1].agent = AgentNames[1]
    /\ lastOp[1].result = VOICE_POOL[2]
    /\ nextVoiceIndex[1] >= 3

--------------------------------------------------------------------------
(* C18: starting from an empty table, the N-th distinct auto-assigned agent
   receives pool[(N-1) mod 9], including the wrap-around when there are
   more agents than pool voices, regardless of interleaved repeat lookups
   and manual assignments. *)
C18_RoundRobin ==
    \A p \in Procs :
        /\ nextVoiceIndex[p] = Len(autoLog[p])
        /\ \A n \in 1..Len(autoLog[p]) :
                /\ autoLog[p][n].voice = VOICE_POOL[((n - 1) % 9) + 1]
                /\ \A k \in 1..Len(autoLog[p]) :
                        k # n => autoLog[p][k].agent # autoLog[p][n].agent

C18_Witness ==
    /\ Len(autoLog[1]) = 10
    /\ autoLog[1][10].voice = VOICE_POOL[1]
    /\ autoLog[1][1].agent = AgentNames[1]
    /\ AgentNames[1] \in DOMAIN manualArg[1]
    /\ lastOp[1].op = "get" /\ lastOp[1].repeat

--------------------------------------------------------------------------
\* the voice a manual argument names: the pool voice whose name equals it
\* up to letter case or whose id equals it, else a custom voice
C19_VoiceOf(v) ==
    IF \E i \in 1..9 : toLowerCase(VOICE_POOL[i].name) = toLowerCase(v)
                       \/ VOICE_POOL[i].id = v
    THEN VOICE_POOL[CHOOSE i \in 1..9 :
                        toLowerCase(VOICE_POOL[i].name) = toLowerCase(v)
                        \/ VOICE_POOL[i].id = v]
    ELSE [name |-> v, id |-> v]

(* C19: after manualAssign(A, v) the assignment for A is v's voice (the pool
   voice on a case-insensitive name match or exact id match, otherwise a
   custom voice {name: v, id: v}), and every later assign(A) or
   getVoiceFor(A) returns that voice until the next manualAssign(A, .). *)
C19_ManualSticks ==
    \A p \in Procs : \A a \in DOMAIN manualArg[p] :
        /\ a \in DOMAIN voiceAssignments[p]
        /\ voiceAssignments[p][a] = C19_VoiceOf(manualArg[p][a])
        /\ lastOp[p].agent = a => lastOp[p].result = C19_VoiceOf(manualArg[p][a])

C19_Witness ==
    /\ AgentNames[1] \in DOMAIN manualArg[1]
    /\ manualArg[1][AgentNames[1]] = "BELLA"
    /\ lastOp[1].op = "get"
    /\ lastOp[1].agent = AgentNames[1]
    /\ lastOp[1].result = [name |-> "Bella", id |-> "EXAVITQu4vr4xnSDxMaL"]
    /\ \E n \in 1..Len(autoLog[1]) : autoLog[1][n].agent = AgentNames[1]
    /\ AgentNames[2] \in DOMAIN manualArg[1]
    /\ voiceAssignments[1][AgentNames[2]] =
            [name |-> "vr6aewltigwg4xsoukag", id |-> "vr6aewltigwg4xsoukag"]

--------------------------------------------------------------------------
\* The step in which the fresh process loads a saved config record gives it
\* the assignments, the cursor and the mute flag of the process that saved.
C20_LoadRestores ==
    (started[2] = "new" /\ started'[2] = "loaded" /\ cfgMuted # "none") =>
        /\ voiceAssignments'[2] = voiceAssignments[1]
        /\ nextVoiceIndex'[2] = nextVoiceIndex[1]
        /\ muted'[2] = muted[1]

(* C20: a fresh process started on the same state directory after a
   completed saveConfig and running loadConfig has the same assignments,
   the same cursor and the same muted value as the process that saved,
   including one that holds only manual assignments with cursor 0; the next
   auto-assignment continues the rotation where the previous process left
   off. *)
C20_RestartRoundTrip == [][C20_LoadRestores]_vars

--------------------------------------------------------------------------
\* the last n elements of a sequence, all of them if it is shorter
LastN(seq, n) ==
    IF Len(seq) <= n THEN seq ELSE SubSeq(seq, Len(seq) - n + 1, Len(seq))

\* A call answers "duplicate" exactly for a fingerprint among the last 100
\* added, and adds the fingerprint otherwise.
C14_CallStep ==
    dupResult' # dupResult \/ insertLog' # insertLog =>
        /\ dupResult'.dup <=> dupResult'.fp \in Range(LastN(insertLog, 100))
        /\ ~dupResult'.dup => insertLog' = Append(insertLog, dupResult'.fp)
        /\ dupResult'.dup => insertLog' = insertLog

\* The set never holds more than 100 fingerprints and holds exactly the
\* last 100 added, so the oldest is the one evicted; once 101 distinct ones
\* have been added the first is kept no longer.
C14_KeepsLastHundred ==
    /\ Len(seenHashes) <= 100
    /\ seenHashes = LastN(insertLog, 100)
    /\ (Len(insertLog) = 101 /\ Cardinality(Range(insertLog)) = 101) =>
            insertLog[1] \notin Range(seenHashes)

(* C14: after every isDuplicate call the fingerprint set holds at most 100
   entries and the oldest entry is the one evicted first, so after 101
   distinct fingerprints have been inserted the first one is no longer
   reported as a duplicate. *)
C14_BoundedFingerprints ==
    []C14_KeepsLastHundred /\ [][C14_CallStep]_vars

C14_Witness ==
    /\ Len(insertLog) = 102
    /\ insertLog[102] = insertLog[1]
    /\ dupResult = [fp |-> Fingerprint(DistinctMessage(0)), dup |-> FALSE]
    /\ Len(seenHashes) = 100
    /\ seenHashes[1] = Fingerprint(DistinctMessage(2))

--------------------------------------------------------------------------
\* the number of the three fields in which two messages differ
FieldsApart(m1, m2) ==
    Cardinality({k \in {"from", "text", "timestamp"} : m1[k] # m2[k]})

\* the messages the loop has found eligible, with what became of them
Eligible == {r \in inboxLog : r.fate \in {"enqueued", "duplicate"}}

(* C13: across all inbox files of one process, two eligible messages with
   identical (from, text, timestamp) that are processed while the first
   one's fingerprint is still retained yield exactly one enqueued item; two
   messages that differ in exactly one of the three fields yield two
   enqueued items. *)
C13_OncePerTriple ==
    \A r1, r2 \in Eligible :
        <<r1.file, r1.pos>> # <<r2.file, r2.pos>> =>
            /\ FieldsApart(r1.msg, r2.msg) = 0 =>
                    Cardinality({r \in {r1, r2} : r.fate = "enqueued"}) = 1
            /\ FieldsApart(r1.msg, r2.msg) = 1 =>
                    r1.fate = "enqueued" /\ r2.fate = "enqueued"

--------------------------------------------------------------------------
\* No step lowers the cursor of a file.
C15_CursorStep ==
    \A f \in Files :
        Cursor(messageIndices', f) >= Cursor(messageIndices, f)

(* C15: for every inbox file path, the recorded cursor (its messageIndices
   entry, absent counting as 0) never decreases over any sequence of
   processInboxFile, watch, watcher-error/unwatch, rescan and safety-poll
   events, including when the file shrinks. *)
C15_CursorNeverDecreases == [][C15_CursorStep]_vars

--------------------------------------------------------------------------
\* the positions of a file the loop has taken
Handled(f) == {r.pos : r \in {r \in inboxLog : r.file = f}}

\* While a batch is in the loop the cursor is the length that was read, and
\* every message taken was taken with the cursor at or beyond its position.
C16_CursorAhead ==
    /\ batch # <<>> =>
            Cursor(messageIndices, batchCall.file) = Len(batchCall.snap)
    /\ \A r \in inboxLog : r.advanced

(* C16: in a run where an inbox file only grows, each message position of
   that file is handed to the message loop at most once, under every
   interleaving of the initial read, debounced change notifications, the
   safety poll and parse retries for that file; the cursor is already
   advanced to the new length when the first message of a batch is
   handled. *)
C16_HandedAtMostOnce ==
    /\ again = {}
    /\ \A i \in DOMAIN batch : batch[i].pos \notin Handled(batch[i].file)
    /\ C16_CursorAhead

C16_Witness ==
    /\ Handled(OneFile) = {1, 2}
    /\ \A r \in inboxLog : r.fate = "enqueued"
    /\ OneFile \in debounceTimers
    /\ Cardinality(calls) = 2
    /\ \E c \in calls : c.at = "read" /\ Len(c.snap) = 2 /\ c.retries < Retries

--------------------------------------------------------------------------
(* C21: a message whose text is missing, empty or whitespace-only, or whose
   text is a JSON payload with type idle_notification, is never enqueued;
   every other message is eligible, including JSON payloads of other types
   and text that starts with '{' but is not valid JSON. *)
C21_Eligibility ==
    \A r \in inboxLog :
        IF r.msg.text \in BlankTexts \cup IdleTexts
        THEN r.fate # "enqueued"
        ELSE r.fate \in {"enqueued", "duplicate"}

--------------------------------------------------------------------------
\* a text that parses as JSON with a type field
IsProtocol(text) ==
    /\ text # Undefined
    /\ JsonParse(text).ok
    /\ JsonParse(text).type # Undefined

\* the sentence of each document that has a type, as the templates give it
C25_Sentence(doc, from) ==
    CASE doc = TaskText -> from \o " assigned task: Fix bug"
      [] doc = "{\"type\":\"task_assignment\",\"assignedBy\":\"lead\",\"subject\":\"Fix bug\"}"
            -> "lead assigned task: Fix bug"
      [] doc = "{\"type\":\"task_assignment\"}" -> from \o " assigned task: unknown"
      [] doc = "{\"type\":\"shutdown_request\",\"reason\":\"all done\"}"
            -> from \o " requests shutdown: all done"
      [] doc = "{\"type\":\"shutdown_request\"}"
            -> from \o " requests shutdown: work complete"
      [] doc = "{\"type\":\"shutdown_approved\"}" -> from \o " has shut down"
      [] doc = "{\"type\":\"plan_approval_request\"}"
            -> from \o " submitted a plan for approval"
      [] doc = "{\"type\":\"custom_event_type\"}" -> from \o ": custom event type"

(* C25: for text that parses as JSON with a type field, the spoken text is
   the template of that type: task_assignment gives '<assignedBy or from>
   assigned task: <subject or unknown>', shutdown_request gives '<from>
   requests shutdown: <reason or work complete>', shutdown_approved gives
   '<from> has shut down', plan_approval_request gives '<from> submitted a
   plan for approval', and any other type gives '<from>: <type with
   underscores replaced by spaces>'.  (Idle notifications are not spoken at
   all and are left out here.) *)
C25_ProtocolTemplates ==
    \A r \in inboxLog :
        (/\ r.fate = "enqueued"
         /\ IsProtocol(r.msg.text)
         /\ r.msg.text \notin IdleTexts) =>
            r.text = C25_Sentence(trim(r.msg.text), OrElse(r.msg.from, "unknown"))

--------------------------------------------------------------------------
\* the enqueued messages that are rendered as '<from> says: <text>'
SaidPlainly ==
    {r \in inboxLog : /\ r.fate = "enqueued"
                      /\ ~IsProtocol(r.msg.text)
                      /\ ~IsProtocol(SummaryOf(r.msg))}

\* '<from> says: <text>' before the cut
C26_Rendered(msg) ==
    OrElse(msg.from, "unknown") \o " says: "
        \o StripMarkdown(OrElse(SummaryOf(msg), msg.text))

(* C26: for a non-protocol message, the rendered '<from> says: <text>'
   string is returned unchanged when its length is at most 500, and
   otherwise is cut to its first 497 characters followed by '...', so the
   result has length exactly 500 and never more. *)
C26_CutToLimit ==
    \A r \in SaidPlainly :
        LET rendered == C26_Rendered(r.msg)
        IN  /\ Len(r.text) <= 500
            /\ Len(rendered) <= 500 => r.text = rendered
            /\ Len(rendered) > 500 =>
                    /\ r.text = SubSeq(rendered, 1, 497) \o "..."
                    /\ Len(r.text) = 500

C26_Witness ==
    \E r \in SaidPlainly :
        /\ Len(C26_Rendered(r.msg)) = 501
        /\ Len(r.text) = 500

--------------------------------------------------------------------------
\* No call has more than 3 retries left or fewer than none.
C22_RetriesLeft == \A c \in calls : c.retries \in 0..3

\* The step in which the read of a call ends leaves the cursors, the
\* fingerprints and the queue as they are; it leaves behind at most the call
\* with what it read or, after a throw, the call with one retry less; and
\* the failure is logged only when no retry is left, and ends the call.
C22_ReadStep ==
    \A c \in calls :
        (c.at = "unread" /\ c \notin calls') =>
            /\ messageIndices' = messageIndices
            /\ seenHashes' = seenHashes
            /\ queue' = queue
            /\ enqLog' = enqLog
            /\ calls' \ calls \subseteq
                    {Call(c.file, c.retries, "read", files[c.file])} \cup
                    (IF c.retries > 0
                     THEN {Call(c.file, c.retries - 1, "unread", <<>>)}
                     ELSE {})
            /\ failLog' # failLog =>
                    c.retries = 0 /\ calls' = calls \ {c}

(* C22: processInboxFile on a file that cannot be read or parsed retries at
   most 3 more times with a short delay, then logs and returns without
   throwing, leaving that file's cursor, the fingerprint set and the queue
   unchanged; a parsed value that is not an array is treated as no
   messages. *)
C22_BoundedRetries == []C22_RetriesLeft /\ [][C22_ReadStep]_vars

C22_Witness ==
    /\ failLog = {OneFile}
    /\ files[OneFile] # <<>>
    /\ inboxLog = {}
    /\ calls = {}
    /\ OneFile \notin DOMAIN messageIndices
    /\ queue[Watcher] = <<>>

--------------------------------------------------------------------------
(* C24: the safety poll processes every inbox file that is currently known
   (watched), including files that were empty, missing or unparseable when
   first watched, so a message appended to any known inbox without a change
   notification is still enqueued after the next poll: a watched file that
   holds messages beyond its cursor, with no call, loop or timer under way
   that would take them, is among the files the poll processes. *)
C24_PollCoversWatched ==
    \A f \in watchers :
        (/\ calls = {}
         /\ batch = <<>>
         /\ f \notin timeouts
         /\ Len(files[f]) > Cursor(messageIndices, f)) =>
            f \in PollTargets(messageIndices)

--------------------------------------------------------------------------
\* the positions of the team directories whose config.json gives no members
\* array
BadDirs == {i \in 1..Len(teamDirs) : teamDirs[i].config # "members"}

\* no call or loop is under way for the file
Settled(f) == batch = <<>> /\ \A c \in calls : c.file # f

(* C23: during a scan of the teams directory, a team whose descriptor is
   missing, is invalid JSON or lacks a members array contributes no inbox
   watchers, and it does not prevent any sibling team's members from being
   watched and their existing messages from being processed: once the scan
   is past a sibling with a members array its inboxes are watched, and when
   their reads have settled every message they held is processed. *)
C23_BadTeamsSkipped ==
    \A i \in 1..Len(teamDirs) :
        LET dir == teamDirs[i]
        IN  IF i \in BadDirs
            THEN /\ MemberInboxes(dir.team) \cap watchers = {}
                 /\ ConfigWatchKey(dir.team) \notin watchers
            ELSE scanned >= i =>
                    \A f \in MemberInboxes(dir.team) :
                        /\ f \in watchers
                        /\ Settled(f) => Handled(f) = 1..Len(files[f])

C23_Witness ==
    /\ BadDirs = {1}
    /\ started[Watcher] = "running"
    /\ \A f \in MemberInboxes(teamDirs[1].team) : files[f] # <<>>
    /\ \A f \in MemberInboxes(teamDirs[2].team) :
            /\ Len(files[f]) = 2
            /\ Settled(f)
            /\ Handled(f) = {1, 2}
    /\ Len(enqLog[Watcher]) = 2

--------------------------------------------------------------------------
\* the consumers whose say is under way
Talking == {c \in Consumers : consumers[c].at = "speaking"}

(* C27: claude-speech: at any time at most one consumer is speaking
   messages from the queue directory; a consumer spawned while another
   holds the consumer lock does not take or speak any message concurrently
   with it, so queued messages never overlap: every consumer whose script
   runs is the holder of consumer.lock, the others wait. *)
C27_OneConsumerSpeaks ==
    /\ Cardinality(Talking) <= 1
    /\ \A c \in Consumers : Alive(c) => lockHolder = c
    /\ \A c \in Consumers :
            lockHolder # c => consumers[c].at \in {"none", "waiting", "exited"}

C27_Witness ==
    \E c, d \in Consumers :
        /\ consumers[c].at = "speaking"
        /\ consumers[d].at = "waiting"
        /\ \E f \in queueDir : f.ext = "msg"

--------------------------------------------------------------------------
\* the role p holds on playback.sock: Leader when it listens, Follower when
\* another process does
Role(p) ==
    IF listener = p THEN "leader"
    ELSE IF listener \in Procs THEN "follower" ELSE "none"

(* C28: startup election terminates in every interleaving: each process
   reaches the Leader or the Follower role after a bounded number of bind,
   connect and remove retries, so a process whose startInboxWatcher has
   resolved holds one of the two roles. *)
C28_StartupReachesRole == \A p \in Procs : Running(p) => Role(p) # "none"

--------------------------------------------------------------------------
\* p1 completed startup before p2 began and has not cleaned up, and both
\* run: p1 is the Leader and p2 a Follower
LeaderAndFollower(p1, p2) ==
    /\ p1 # p2
    /\ Running(p1) /\ Running(p2)
    /\ LifeAt(p1, "end") < LifeAt(p2, "begin")
    /\ LifeAt(p1, "cleanup") = 0

(* C29: an item forwarded by a Follower and received by the Leader causes
   the same Leader queue transition as a local enqueue of the same item on
   the Leader (the same mute check, trim rule and drain trigger), played in
   the order the Leader's queue received it: an enqueue on the Follower is
   no transition of the Follower's own queue, trim record or synthesis
   calls, and what it adds to a queue it adds to the Leader's as EnqueueQ
   does. *)
C29_ForwardedLikeLocal ==
    [][\A p1, p2 \in Procs :
            (LeaderAndFollower(p1, p2) /\ EnqueueStep(p2)) =>
                /\ queue'[p2] = queue[p2]
                /\ trimmed'[p2] = trimmed[p2]
                /\ ttsCalls'[p2] = ttsCalls[p2]
                /\ \A i \in 1..Len(queue'[p1]) :
                        queue'[p1][i].origin = p2 =>
                            queue'[p1] = EnqueueQ(queue[p1], muted[p1],
                                                  queue'[p1][i])]_vars

--------------------------------------------------------------------------
\* cleanup() has been called on p
Cleaned(p) == LifeAt(p, "cleanup") > 0

(* C30: on process shutdown (cleanup) a Leader releases the rendezvous
   channel and every active file watcher, pending debounce timer and the
   safety-poll interval is stopped, so that no inbox file is processed and
   nothing is enqueued after cleanup has returned: once cleanup has been
   called no watcher and no timeout is left, the process does not listen,
   and no processInboxFile call begins. *)
C30_CleanupStopsWatching ==
    /\ [](Cleaned(Watcher) =>
            /\ watchers = {}
            /\ timeouts = {}
            /\ listener # Watcher)
    /\ [][Cleaned(Watcher) =>
            \A c \in calls' \ calls : c.at # "unread" \/ c.retries < Retries]_vars

--------------------------------------------------------------------------
(* C31: each accepted item is removed from the queue before its playback
   attempt and is attempted at most once: after its attempt ends, in
   success or in failure, it is never synthesized again and never put back
   in the queue.  No id is synthesized twice, no synthesized id waits, and
   the item in flight is the one synthesized last. *)
C31_AttemptedOnce ==
    \A p \in Procs :
        /\ \A i, j \in 1..Len(ttsCalls[p]) :
                ttsCalls[p][i].item.id = ttsCalls[p][j].item.id => i = j
        /\ TtsIds(p) \cap QueueIds(p) = {}
        /\ isPlaying[p] =>
                /\ cur[p] = Last(ttsCalls[p]).item
                /\ cur[p].id \notin QueueIds(p)
        /\ TtsIds(p) \subseteq AcceptedIds(p)

C31_Witness ==
    /\ caught[1]
    /\ nEnded[1] = 1
    /\ isPlaying[1]
    /\ Len(ttsCalls[1]) = 2
    /\ Len(queue[1]) = 1

--------------------------------------------------------------------------
(* C32: if every synthesis and playback call eventually returns or throws
   and enqueues eventually stop, then every item that is in the backlog and
   is not trimmed is eventually attempted, and the process eventually
   reaches, and then keeps, a state with an empty backlog and isPlaying
   false. *)
C32_DrainsToEmpty ==
    /\ \A id \in 0..(MaxItems - 1) :
            (id \in QueueIds(1)) ~> (id \in TtsIds(1) \cup trimmed[1])
    /\ <>[]Quiescent(1)

C32_Witness ==
    /\ Quiescent(1)
    /\ nextId = MaxItems
    /\ nEnded[1] = MaxItems
    /\ Len(ttsCalls[1]) = MaxItems

--------------------------------------------------------------------------
\* a config write has settled
Persisted == cfgMuted # "none"

(* C33: after any sequence of mutating calls (assign of a new agent,
   manualAssign, set mute), once all the asynchronous config writes they
   started have completed, the persisted config record equals the in-memory
   {assignments, cursor, muted} state left by the last mutation and not an
   earlier snapshot, under every completion order of the overlapping
   fire-and-forget writes. *)
C33_PersistedIsLatest ==
    (saves = <<>> /\ Persisted) =>
        /\ cfgVoices = voiceAssignments[1]
        /\ cfgNext = nextVoiceIndex[1]
        /\ cfgMuted = (IF muted[1] THEN "true" ELSE "false")


(* C34: once a change of a team's config.json that adds a member has been
   taken up (the watcher on config.json is set and its debounce timeout has
   fired), the new member's inbox is watched. *)
C34_NewMemberWatched ==
    LET dir == teamDirs[1]
        key == ConfigWatchKey(dir.team)
    IN  (dir.config = "grown" /\ key \in watchers /\ key \notin timeouts)
            => NewInbox \in watchers

\* the messages the hooks have written to the queue: the files that are
\* there, and those a consumer has spoken and removed
Written ==
    {[seq |-> f.seq, text |-> f.text] : f \in queueDir}
        \cup {[seq |-> -i, text |-> spoken[i]] : i \in 1..Len(spoken)}

(* C35: with two Stop hooks on one transcript, no assistant message of the
   transcript is written to the queue more than once. *)
C35_QueuedOnce ==
    \A f, g \in Written : f.text = g.text => f = g

--------------------------------------------------------------------------
(* C36: whenever no drain step is executing, isPlaying false implies that
   the backlog is empty: no accepted item is left in the queue with no
   drain in progress to play it. *)
C36_IdleMeansEmpty ==
    \A p \in Procs :
        /\ pc[p] = "idle" => ~isPlaying[p]
        /\ ~isPlaying[p] => /\ Len(queue[p]) = 0
                            /\ AcceptedIds(p) \subseteq TtsIds(p) \cup trimmed[p]

C36_Witness ==
    /\ ~isPlaying[1]
    /\ pc[1] = "idle"
    /\ Len(ttsCalls[1]) = 2
    /\ nEnded[1] = 2
    /\ muted[1]

--------------------------------------------------------------------------
(* C37: in every reachable state the backlog holds at most 10 items,
   whatever the rate of enqueues and however long playback stays blocked. *)
C37_BacklogBounded ==
    \A p \in Procs : Len(queue[p]) <= TrimThreshold

C37_Witness ==
    /\ Len(queue[1]) = TrimThreshold
    /\ pc[1] = "tts"
    /\ Len(ttsCalls[1]) = 1
    /\ nEnded[1] = 0

--------------------------------------------------------------------------
\* the positions of an inbox file the cursor has passed
Passed(f) == 1..Cursor(messageIndices, f)

(* C38: an element of a batch that makes processing throw does not cause
   later elements to be lost: once no processInboxFile call is under way,
   every eligible message the cursor has passed has been enqueued or found
   to be a duplicate. *)
C38_NoneLostToAThrow ==
    (batch = <<>> /\ calls = {}) =>
        \A pos \in Passed(OneFile) :
            (~Throws(files[OneFile][pos]) /\ ShouldSpeak(files[OneFile][pos])) =>
                \E r \in inboxLog :
                    /\ r.file = OneFile
                    /\ r.pos = pos
                    /\ r.fate \in {"enqueued", "duplicate"}

--------------------------------------------------------------------------
(* C39: isDuplicate reports a message as a duplicate only if a message
   handled before it had the same from, text and timestamp; messages whose
   triples differ are never suppressed, also when a field is missing in
   one and empty in the other. *)
C39_DuplicateOnlyOfSameTriple ==
    \A r \in inboxLog :
        r.fate = "duplicate" =>
            \E e \in inboxLog :
                /\ e.fate = "enqueued"
                /\ <<e.file, e.pos>> # <<r.file, r.pos>>
                /\ e.msg.from = r.msg.from
                /\ e.msg.text = r.msg.text
                /\ e.msg.timestamp = r.msg.timestamp

--------------------------------------------------------------------------
\* a hook run is under way: it will look for a consumer after its write
HookRunning == \E h \in HookProcs : hooks[h].at # "idle"

\* a consumer that will look at the queue again: waiting for consumer.lock
\* or in its loop
Serving ==
    \E c \in Consumers :
        consumers[c].at \in {"waiting", "start", "loop", "mv", "say",
                             "speaking"}

(* C40: while speech stays enabled, a message file written to the queue is
   spoken without a later hook invocation: whenever a .msg file is in the
   queue, the hook run that wrote it is still under way or a consumer that
   will look at the queue again exists. *)
C40_NoStrandedMessage ==
    (\E f \in queueDir : f.ext = "msg") => (HookRunning \/ Serving)

====
